---- MODULE Spec2Model ----
(***************************************************************************)
(* A model of the AWS Multi-Session Custom Alias content script: the       *)
(* identifier codec and text rewriter of AliasManager (src/utils/alias.js),*)
(* its element annotator and clearing pass over a document tree, and the   *)
(* reactive controller of src/content/content.js.                          *)
(*                                                                         *)
(* Text is a sequence of one-character strings.  Indices into text are     *)
(* 1-based here; the regular expression's lastIndex keeps the 0-based      *)
(* value it has in the program.                                            *)
(***************************************************************************)
EXTENDS Integers, Sequences, FiniteSets, TLC

\* ------------------------------------------------------------------------
\* Bounds of the model
\* ------------------------------------------------------------------------
\* fragments concatenated into one input text of the rewriting runs
MaxFrags == 3
\* calls made in one run of the annotator on a document
MaxCalls == 3
\* events produced by the environment of the controller (host mutations,
\* storage writes, navigations, clicks) in one run
MaxEvents == 2

\* timed runs of applyAliases(): ticks the clock may count, triggers that may
\* arrive, and the length of the debounce window in ticks
MaxTicks == 7
MaxTriggers == 3
WindowTicks == 2

\* codec runs: number of parts an input string is put together from
MaxParts == 3

\* ------------------------------------------------------------------------
\* Program constants
\* ------------------------------------------------------------------------
IdLen == 12
GroupLen == 4

\* ------------------------------------------------------------------------
\* Text helpers
\* ------------------------------------------------------------------------
DigitChars == {"0", "1", "2", "3", "4", "5", "6", "7", "8", "9"}

IsDigit(c) == c \in DigitChars

Rep(c, n) == [i \in 1..n |-> c]

\* the element of the one-element set S; The({e(v) : v \in {x}}) is e applied
\* to the value of x, x being evaluated once
The(S) == CHOOSE r \in S : TRUE

RECURSIVE Concat(_)
Concat(ss) == IF ss = <<>> THEN <<>> ELSE Head(ss) \o Concat(Tail(ss))

\* s occurs in t starting at (1-based) position i
OccursAt(t, s, i) ==
    /\ i >= 1
    /\ i + Len(s) - 1 <= Len(t)
    /\ \A k \in 1..Len(s) : t[i + k - 1] = s[k]

\* String.prototype.includes
Includes(t, s) == \E i \in 1..(Len(t) + 1) : OccursAt(t, s, i)

AllDigits(t, i, n) ==
    /\ i >= 1
    /\ i + n - 1 <= Len(t)
    /\ \A k \in i..(i + n - 1) : IsDigit(t[k])

\* ------------------------------------------------------------------------
\* Identifier codec (AliasManager)
\* ------------------------------------------------------------------------

\* first alternative of ACCOUNT_ID_PATTERN at position i: \d{4}-\d{4}-\d{4}
HyphenatedAt(t, i) ==
    /\ AllDigits(t, i, GroupLen)
    /\ i + 3 * GroupLen + 1 <= Len(t)
    /\ t[i + GroupLen] = "-"
    /\ AllDigits(t, i + GroupLen + 1, GroupLen)
    /\ t[i + 2 * GroupLen + 1] = "-"
    /\ AllDigits(t, i + 2 * GroupLen + 2, GroupLen)

\* second alternative of ACCOUNT_ID_PATTERN at position i: \d{12}
ContiguousAt(t, i) == AllDigits(t, i, IdLen)

\* length of the match of ACCOUNT_ID_PATTERN anchored at position i, 0 if none
MatchLen(t, i) ==
    IF HyphenatedAt(t, i) THEN IdLen + 2
    ELSE IF ContiguousAt(t, i) THEN IdLen
    ELSE 0

\* leftmost position >= from at which ACCOUNT_ID_PATTERN matches, 0 if none
NextMatch(t, from) ==
    LET ps == {i \in from..Len(t) : MatchLen(t, i) > 0}
    IN  IF ps = {} THEN 0 ELSE CHOOSE p \in ps : \A q \in ps : p <= q

\* ACCOUNT_ID_PATTERN.test(t) of a global (/g) pattern whose lastIndex is li:
\* the scan starts at lastIndex; a match leaves lastIndex behind the match,
\* a failure resets it to 0.
PatternTest(t, li) ==
    LET p == IF li > Len(t) THEN 0 ELSE NextMatch(t, li + 1)
    IN  IF p = 0 THEN [ok |-> FALSE, li |-> 0]
        ELSE [ok |-> TRUE, li |-> p - 1 + MatchLen(t, p)]

normalizeAccountId(accountId) == SelectSeq(accountId, LAMBDA c : c # "-")

\* formatAccountId with the length test alone, without /^\d{12}$/
formatAccountId_NoDigitTest(accountId) ==
    IF Len(accountId) = IdLen
    THEN SubSeq(accountId, 1, GroupLen) \o <<"-">>
         \o SubSeq(accountId, GroupLen + 1, 2 * GroupLen) \o <<"-">>
         \o SubSeq(accountId, 2 * GroupLen + 1, IdLen)
    ELSE accountId

formatAccountId(accountId) ==
    IF Len(accountId) = IdLen /\ AllDigits(accountId, 1, IdLen)
    THEN SubSeq(accountId, 1, GroupLen) \o <<"-">>
         \o SubSeq(accountId, GroupLen + 1, 2 * GroupLen) \o <<"-">>
         \o SubSeq(accountId, 2 * GroupLen + 1, IdLen)
    ELSE accountId

\* ------------------------------------------------------------------------
\* Text rewriting (AliasManager.applyAliasesToText)
\* ------------------------------------------------------------------------

\* Object.values(aliasMap)
MapValues(aliasMap) == {aliasMap[k] : k \in DOMAIN aliasMap}

\* a lookup that ignores the key
Lookup_AnyKey(aliasMap, id) ==
    IF DOMAIN aliasMap = {} THEN <<>>
    ELSE aliasMap[CHOOSE k \in DOMAIN aliasMap : TRUE]

\* aliasMap[normalizedId], the empty text standing for undefined (both falsy)
Lookup(aliasMap, id) == IF id \in DOMAIN aliasMap THEN aliasMap[id] ELSE <<>>

Parens(alias) == <<"(">> \o alias \o <<")">>

\* the guard of lines 96-104
hasAlreadyProcessed(text, aliasMap) ==
    /\ Includes(text, <<"(">>)
    /\ Includes(text, <<")">>)
    /\ \E alias \in MapValues(aliasMap) : Includes(text, Parens(alias))

\* text.replace(ACCOUNT_ID_PATTERN, callback) from position i on
RECURSIVE ReplaceFrom(_, _, _)
ReplaceFrom(text, aliasMap, i) ==
    LET p == NextMatch(text, i) IN
    IF p = 0 THEN SubSeq(text, i, Len(text))
    ELSE LET n == MatchLen(text, p)
             accountId == SubSeq(text, p, p + n - 1)
             alias == Lookup(aliasMap, normalizeAccountId(accountId))
         IN  SubSeq(text, i, p - 1)
             \o (IF alias # <<>>
                 THEN accountId \o <<" ">> \o Parens(alias)
                 ELSE accountId)
             \o ReplaceFrom(text, aliasMap, p + n)

\* the rewriting without the guard of lines 96-104
applyAliasesToText_NoGuard(text, aliasMap) == ReplaceFrom(text, aliasMap, 1)

applyAliasesToText(text, aliasMap) ==
    IF hasAlreadyProcessed(text, aliasMap) THEN text
    ELSE ReplaceFrom(text, aliasMap, 1)

\* ------------------------------------------------------------------------
\* Span wrapping (applyAliasToElement, lines 177-188)
\* ------------------------------------------------------------------------

\* markup tokens written by the replacement string
SpanOpen == "<span class=aws-custom-alias>"
SpanClose == "</span>"

\* position of the ")" closing the group " \(([^)]+)\)" that starts at q, or 0
GroupEnd(text, q) ==
    IF /\ q + 3 <= Len(text)
       /\ text[q] = " "
       /\ text[q + 1] = "("
       /\ text[q + 2] # ")"
    THEN LET rs == {r \in (q + 3)..Len(text) : text[r] = ")"}
         IN  IF rs = {} THEN 0 ELSE CHOOSE r \in rs : \A r2 \in rs : r <= r2
    ELSE 0

\* end of the match of /(\d{4}-\d{4}-\d{4}|\d{12}) \(([^)]+)\)/ anchored at p,
\* as [q |-> position behind the identifier, r |-> position of ")"], r = 0 if none
SpanMatchAt(text, p) ==
    IF HyphenatedAt(text, p) /\ GroupEnd(text, p + IdLen + 2) > 0
    THEN [q |-> p + IdLen + 2, r |-> GroupEnd(text, p + IdLen + 2)]
    ELSE IF ContiguousAt(text, p) /\ GroupEnd(text, p + IdLen) > 0
    THEN [q |-> p + IdLen, r |-> GroupEnd(text, p + IdLen)]
    ELSE [q |-> 0, r |-> 0]

\* newText.replace(/.../g, '$1 <span class="aws-custom-alias">($2)</span>')
RECURSIVE MarkupFrom(_, _)
MarkupFrom(text, i) ==
    LET ps == {p \in i..Len(text) : SpanMatchAt(text, p).r > 0} IN
    IF ps = {} THEN SubSeq(text, i, Len(text))
    ELSE LET p == CHOOSE x \in ps : \A y \in ps : x <= y
             m == SpanMatchAt(text, p)
         IN  SubSeq(text, i, m.q) \o <<SpanOpen>>
             \o SubSeq(text, m.q + 1, m.r) \o <<SpanClose>>
             \o MarkupFrom(text, m.r + 1)

\* A child node of an element: a Text node, or a span.aws-custom-alias element
\* holding one Text node.
TextNode(t) == [span |-> FALSE, text |-> t]
SpanNode(t) == [span |-> TRUE, text |-> t]

\* tempDiv.innerHTML = markup: character runs become Text nodes (no empty
\* Text node is created), each span tag pair becomes a span element.  The
\* characters of the model's alphabet are ordinary characters of HTML text.
RECURSIVE ParseHTML(_, _, _)
ParseHTML(markup, run, inSpan) ==
    IF markup = <<>>
    THEN IF run = <<>> THEN <<>>
         ELSE <<IF inSpan THEN SpanNode(run) ELSE TextNode(run)>>
    ELSE LET c == Head(markup) IN
         IF c = SpanOpen
         THEN (IF run = <<>> THEN <<>> ELSE <<TextNode(run)>>)
              \o ParseHTML(Tail(markup), <<>>, TRUE)
         ELSE IF c = SpanClose
         THEN <<SpanNode(run)>> \o ParseHTML(Tail(markup), <<>>, FALSE)
         ELSE ParseHTML(Tail(markup), Append(run, c), inSpan)

\* the nodes of the fragment that replaces a text node whose text became newText
FragmentOf(newText) == ParseHTML(MarkupFrom(newText, 1), <<>>, FALSE)

\* prevNode.textContent.replace(/ \([^)]+\)$/, '')
StripTrailingGroup(text) ==
    LET n == Len(text)
        ps == {p \in 1..(n - 3) :
                 /\ text[p] = " "
                 /\ text[p + 1] = "("
                 /\ text[n] = ")"
                 /\ \A k \in (p + 2)..(n - 1) : text[k] # ")"}
    IN  IF ps = {} THEN text
        ELSE SubSeq(text, 1, (CHOOSE p \in ps : \A q \in ps : p <= q) - 1)

\* ------------------------------------------------------------------------
\* The document tree
\*
\* The host document is a fixed skeleton of elements; every element holds a
\* sequence of own child nodes (Text nodes and Labeled Spans) followed by its
\* child elements.  st is the record [nodes, mark, li, recs]: the own nodes
\* of every element, dataset.aliasApplied of every element, the lastIndex of
\* ACCOUNT_ID_PATTERN, and the mutation records queued for the observer.
\* ------------------------------------------------------------------------
Elems == {"html", "head", "title", "body", "nav", "sess", "main", "code", "tok",
          "menu"}

\* document order, the order of document.querySelectorAll('*')
DocOrder == <<"html", "head", "title", "body", "nav", "sess", "main", "code", "tok",
             "menu">>

ChildElems(e) ==
    CASE e = "html" -> <<"head", "body">>
      [] e = "head" -> <<"title">>
      [] e = "body" -> <<"nav", "sess", "main", "menu">>
      [] e = "main" -> <<"code">>
      [] e = "code" -> <<"tok">>
      [] OTHER -> <<>>

Range(s) == {s[i] : i \in 1..Len(s)}

HasParent(e) == \E p \in Elems : e \in Range(ChildElems(p))
ParentOf(e) == CHOOSE p \in Elems : e \in Range(ChildElems(p))

RECURSIVE AncestorsOrSelf(_)
AncestorsOrSelf(e) ==
    {e} \cup (IF HasParent(e) THEN AncestorsOrSelf(ParentOf(e)) ELSE {})

AncestorTable == [e \in Elems |-> AncestorsOrSelf(e)]

\* x lies in the subtree rooted at e (e included)
Under(x, e) == e \in AncestorTable[x]

SubtreeTable == [e \in Elems |-> SelectSeq(DocOrder, LAMBDA x : Under(x, e))]

\* the elements of the subtree of e, in document order
SubtreeOrder(e) == SubtreeTable[e]

\* element.matches(EXCLUDE_SELECTORS): the <code> element of the skeleton
MatchesExclude(e) == e = "code"

\* the elements selected by navigationSelectors, in the order visited
NavigationSelected == <<"nav">>

\* the elements selected by sessionPanelSelectors ([id*="session"]), in order
SessionPanelSelected == <<"sess">>

\* the elements selected by the navigationSelectors of clearPageContentAliases
ClearNavigationSelected == {"nav"}

\* document.body.contains(e): the subtree the MutationObserver watches
Observed(e) == Under(e, "body")

TextsOf(ns) == Concat([i \in 1..Len(ns) |-> ns[i].text])

RECURSIVE TextContent(_, _)
TextContent(nodes, e) ==
    TextsOf(nodes[e])
    \o Concat([i \in 1..Len(ChildElems(e)) |-> TextContent(nodes, ChildElems(e)[i])])

\* element.querySelector('.aws-custom-alias')
HasSpan(nodes, e) ==
    \E x \in Elems : Under(x, e) /\ \E i \in 1..Len(nodes[x]) : nodes[x][i].span

ArnPrefix == <<"a", "r", "n", ":", "a", "w", "s", ":">>
ArnCnPrefix == <<"a", "r", "n", ":", "a", "w", "s", "-", "c", "n", ":">>

isExcludedElement(nodes, e) ==
    \/ MatchesExclude(e)
    \/ \E a \in AncestorTable[e] : MatchesExclude(a)
    \/ LET text == TextContent(nodes, e)
       IN  Includes(text, ArnPrefix) \/ Includes(text, ArnCnPrefix)

IsBlank(t) == \A i \in 1..Len(t) : t[i] = " "

\* the Text nodes below e in document order, as <<element, index>>
TextRefs(nodes, e) ==
    LET order == SubtreeOrder(e)
        own(x) == SelectSeq([i \in 1..Len(nodes[x]) |-> <<x, i>>],
                            LAMBDA r : ~nodes[x][r[2]].span)
    IN  Concat([k \in 1..Len(order) |-> own(order[k])])

\* The TreeWalker filter applied to refs in order: [acc |-> accepted refs, li]
RECURSIVE WalkFilter(_, _, _, _)
WalkFilter(nodes, refs, li, acc) ==
    IF refs = <<>> THEN [acc |-> acc, li |-> li]
    ELSE LET r == Head(refs)
             value == nodes[r[1]][r[2]].text
         IN  IF IsBlank(value)
             THEN WalkFilter(nodes, Tail(refs), li, acc)
             ELSE IF isExcludedElement(nodes, r[1])
             THEN WalkFilter(nodes, Tail(refs), li, acc)
             ELSE LET t == PatternTest(value, li)
                  IN  WalkFilter(nodes, Tail(refs), t.li,
                                 IF t.ok THEN Append(acc, r) ELSE acc)

\* lastIndex after applyAliasesToText ran on each text in order: replace()
\* with a global pattern leaves lastIndex at 0, the guard does not touch it
RECURSIVE LiAfterRewrites(_, _, _)
LiAfterRewrites(texts, aliasMap, li) ==
    IF texts = <<>> THEN li
    ELSE LiAfterRewrites(Tail(texts), aliasMap,
                         IF hasAlreadyProcessed(Head(texts), aliasMap) THEN li ELSE 0)

\* mutation records as the observer callback reads them
CharacterData(t) == [type |-> "characterData", text |-> t, added |-> <<>>]
\* added: the textContent of every added node that is an element
ChildList(els) == [type |-> "childList", text |-> <<>>, added |-> els]

AddedElementTexts(ns) ==
    LET sp == SelectSeq(ns, LAMBDA n : n.span)
    IN  [i \in 1..Len(sp) |-> sp[i].text]

\* lines 141-193: the TreeWalker, the rewriting of the accepted Text nodes and
\* the mark
rewriteTextNodes(st, e, aliasMap) ==
  The({
    LET textNodes == w.acc
        accepted == Range(textNodes)
        original(r) == st.nodes[r[1]][r[2]].text
        changed(r) == applyAliasesToText(original(r), aliasMap) # original(r)
        piece(x, i) ==
            IF <<x, i>> \in accepted /\ changed(<<x, i>>)
            THEN FragmentOf(applyAliasesToText(original(<<x, i>>), aliasMap))
            ELSE <<st.nodes[x][i]>>
        newNodes == [x \in Elems |->
            Concat([i \in 1..Len(st.nodes[x]) |-> piece(x, i)])]
        hit == SelectSeq(textNodes, LAMBDA r : changed(r) /\ Observed(r[1]))
        newRecs == [k \in 1..Len(hit) |->
            ChildList(AddedElementTexts(piece(hit[k][1], hit[k][2])))]
    IN  [st EXCEPT
           !.nodes = newNodes,
           !.mark = [st.mark EXCEPT ![e] = TRUE],
           !.li = LiAfterRewrites([k \in 1..Len(textNodes) |-> original(textNodes[k])],
                                  aliasMap, w.li),
           !.recs = st.recs \o newRecs]
    : w \in {WalkFilter(st.nodes, TextRefs(st.nodes, e), st.li, <<>>)}})

\* the annotator without its exclusion check
applyAliasToElement_NoExclusionCheck(st, e, aliasMap) ==
    IF st.mark[e] THEN st
    ELSE IF HasSpan(st.nodes, e) THEN [st EXCEPT !.mark[e] = TRUE]
    ELSE rewriteTextNodes(st, e, aliasMap)

\* the annotator without its check of the mark
applyAliasToElement_NoMarkCheck(st, e, aliasMap) ==
    IF isExcludedElement(st.nodes, e) THEN st
    ELSE IF HasSpan(st.nodes, e) THEN [st EXCEPT !.mark[e] = TRUE]
    ELSE rewriteTextNodes(st, e, aliasMap)

\* the annotator without its check for a Labeled Span inside the element
applyAliasToElement_NoSpanCheck(st, e, aliasMap) ==
    IF isExcludedElement(st.nodes, e) THEN st
    ELSE IF st.mark[e] THEN st
    ELSE rewriteTextNodes(st, e, aliasMap)

applyAliasToElement(st, e, aliasMap) ==
    IF isExcludedElement(st.nodes, e) THEN st
    ELSE IF st.mark[e] THEN st
    ELSE IF HasSpan(st.nodes, e) THEN [st EXCEPT !.mark[e] = TRUE]
    ELSE rewriteTextNodes(st, e, aliasMap)

\* ------------------------------------------------------------------------
\* Clearing (AliasManager.clearAliasesFromElement, clearPageContentAliases)
\* ------------------------------------------------------------------------

\* The span loop over the own nodes of one element, spans taken in order:
\* the Text node before a span at the moment the span is handled is rewritten
\* by StripTrailingGroup, then the span is removed.  hits counts the
\* assignments to the Text node's textContent.
RECURSIVE RemoveSpans(_, _)
RemoveSpans(ns, acc) ==
    IF ns = <<>> THEN acc
    ELSE LET n == Head(ns) IN
         IF n.span
         THEN IF acc # <<>>
              THEN LET last == acc[Len(acc)]
                   IN  RemoveSpans(Tail(ns),
                         [acc EXCEPT ![Len(acc)] =
                            [text |-> StripTrailingGroup(last.text),
                             hits |-> last.hits + 1]])
              ELSE RemoveSpans(Tail(ns), acc)
         ELSE RemoveSpans(Tail(ns), Append(acc, [text |-> n.text, hits |-> 0]))

NodesAfterRemoval(ns) ==
    LET acc == RemoveSpans(ns, <<>>)
    IN  [i \in 1..Len(acc) |-> TextNode(acc[i].text)]

\* one characterData record per assignment; the callback reads the value the
\* Text node has when it runs
RecordsOfRemoval(ns) ==
    LET acc == RemoveSpans(ns, <<>>)
    IN  Concat([i \in 1..Len(acc) |->
                  [k \in 1..acc[i].hits |-> CharacterData(acc[i].text)]])

\* the spans of the elements in S are removed, the marks of those in U unset
RemoveFrom(st, S, U) ==
    [nodes |-> [x \in Elems |->
                  IF x \in S THEN NodesAfterRemoval(st.nodes[x]) ELSE st.nodes[x]],
     mark |-> [x \in Elems |-> IF x \in U THEN FALSE ELSE st.mark[x]],
     li |-> st.li,
     recs |-> st.recs \o
              Concat([k \in 1..Len(DocOrder) |->
                 IF DocOrder[k] \in S /\ Observed(DocOrder[k])
                 THEN RecordsOfRemoval(st.nodes[DocOrder[k]]) ELSE <<>>])]

clearAliasesFromElement(st, root) ==
    RemoveFrom(st, {x \in Elems : Under(x, root)},
                   {x \in Elems : Under(x, root) /\ x # root})

\* navElement.contains(x) for some element the strip's selector list selects
InClearNavigation(x) == \E n \in ClearNavigationSelected : Under(x, n)

clearPageContentAliases(st) ==
    RemoveFrom(st, {x \in Elems : ~InClearNavigation(x)},
                   {x \in Elems : ~InClearNavigation(x)})

\* ------------------------------------------------------------------------
\* Passes (AliasManager.applyAliasesToPage, applyAliasesToNavigation)
\* ------------------------------------------------------------------------
ElemItem(e) == [span |-> FALSE, e |-> e, text |-> <<>>]
SpanItem(t) == [span |-> TRUE, e |-> "", text |-> t]

\* document.querySelectorAll('*'): the static list taken when the pass starts,
\* every element followed by the spans among its own nodes
AllElements(nodes) ==
    Concat([k \in 1..Len(DocOrder) |->
        <<ElemItem(DocOrder[k])>>
        \o LET sp == SelectSeq(nodes[DocOrder[k]], LAMBDA n : n.span)
           IN  [i \in 1..Len(sp) |-> SpanItem(sp[i].text)]])

WithLi(st, li) == [st EXCEPT !.li = li]

\* the body of a loop has been entered for element e
Seen(st, e) == [st EXCEPT !.seen = @ \cup {e}]

\* the body of the forEach of applyAliasesToPage for one list item; a span is
\* never marked and its text holds no identifier when the labels hold none
PageVisit(st, item, aliasMap) ==
    IF item.span THEN WithLi(st, PatternTest(item.text, st.li).li)
    ELSE IF item.e \in st.bad THEN Seen(st, item.e)
    ELSE IF st.mark[item.e] THEN Seen(st, item.e)
    ELSE LET t == PatternTest(TextContent(st.nodes, item.e), st.li)
         IN  IF t.ok
             THEN The({applyAliasToElement(s1, item.e, aliasMap) :
                         s1 \in {Seen(WithLi(st, t.li), item.e)}})
             ELSE Seen(WithLi(st, t.li), item.e)

RECURSIVE PageLoop(_, _, _)
PageLoop(st, items, aliasMap) ==
    IF items = <<>> THEN st
    ELSE The({PageLoop(s1, Tail(items), aliasMap) :
                s1 \in {PageVisit(st, Head(items), aliasMap)}})

\* strip and collapse ASCII whitespace (the document.title getter)
RECURSIVE Collapse(_)
Collapse(t) ==
    IF Len(t) < 2 THEN t
    ELSE IF t[1] = " " /\ t[2] = " " THEN Collapse(Tail(t))
    ELSE <<t[1]>> \o Collapse(Tail(t))

StripCollapse(t) ==
    LET c == Collapse(t)
        a == IF c # <<>> /\ c[1] = " " THEN Tail(c) ELSE c
    IN  IF a # <<>> /\ a[Len(a)] = " " THEN SubSeq(a, 1, Len(a) - 1) ELSE a

\* document.title: the Text children of the title element
DocumentTitle(nodes) ==
    StripCollapse(TextsOf(SelectSeq(nodes["title"], LAMBDA n : ~n.span)))

\* lines 223-229: the title update of the page pass
UpdateTitle(st, aliasMap) ==
    LET title == DocumentTitle(st.nodes)
        newTitle == applyAliasesToText(title, aliasMap)
    IN  IF title = <<>> THEN st
        ELSE [st EXCEPT
                !.li = LiAfterRewrites(<<title>>, aliasMap, st.li),
                !.nodes["title"] =
                    IF title # newTitle THEN <<TextNode(newTitle)>> ELSE @]

applyAliasesToPage(st, aliasMap) ==
    The({UpdateTitle(s1, aliasMap) :
           s1 \in {PageLoop(st, AllElements(st.nodes), aliasMap)}})

\* lines 148-156, one selected element
NavigationVisit(st, e, aliasMap) ==
    IF st.mark[e] THEN Seen(st, e)
    ELSE LET t == PatternTest(TextContent(st.nodes, e), st.li)
         IN  IF t.ok
             THEN The({applyAliasToElement(s1, e, aliasMap) :
                         s1 \in {Seen(WithLi(st, t.li), e)}})
             ELSE Seen(WithLi(st, t.li), e)

hasRegisteredAccountId(text, aliasMap) ==
    \E accountId \in DOMAIN aliasMap :
        Includes(text, accountId) \/ Includes(text, formatAccountId(accountId))

\* lines 191-209, one selected element
SessionPanelVisit(st, e, aliasMap) ==
    IF st.mark[e] THEN Seen(st, e)
    ELSE LET text == TextContent(st.nodes, e) IN
         IF hasRegisteredAccountId(text, aliasMap)
         THEN The({applyAliasToElement(s1, e, aliasMap) : s1 \in {Seen(st, e)}})
         ELSE LET t == PatternTest(text, st.li)
              IN  IF t.ok
                  THEN The({applyAliasToElement(s1, e, aliasMap) :
                              s1 \in {Seen(WithLi(st, t.li), e)}})
                  ELSE Seen(WithLi(st, t.li), e)

\* lines 146-163: the elements one selector selects, inside the selector's
\* try; an element whose processing throws ends the forEach
RECURSIVE NavigationLoop(_, _, _)
NavigationLoop(st, els, aliasMap) ==
    IF els = <<>> THEN st
    ELSE IF Head(els) \in st.bad THEN Seen(st, Head(els))
    ELSE The({NavigationLoop(s1, Tail(els), aliasMap) :
                s1 \in {NavigationVisit(st, Head(els), aliasMap)}})

\* lines 189-217, likewise
RECURSIVE SessionPanelLoop(_, _, _)
SessionPanelLoop(st, els, aliasMap) ==
    IF els = <<>> THEN st
    ELSE IF Head(els) \in st.bad THEN Seen(st, Head(els))
    ELSE The({SessionPanelLoop(s1, Tail(els), aliasMap) :
                s1 \in {SessionPanelVisit(st, Head(els), aliasMap)}})

\* navigationSelectors.forEach, line 145: groups[k] are the elements the
\* k-th selector that selects anything selects
RECURSIVE NavigationSelectors(_, _, _)
NavigationSelectors(st, groups, aliasMap) ==
    IF groups = <<>> THEN st
    ELSE The({NavigationSelectors(s1, Tail(groups), aliasMap) :
                s1 \in {NavigationLoop(st, Head(groups), aliasMap)}})

\* sessionPanelSelectors.forEach, line 188
RECURSIVE SessionPanelSelectors(_, _, _)
SessionPanelSelectors(st, groups, aliasMap) ==
    IF groups = <<>> THEN st
    ELSE The({SessionPanelSelectors(s1, Tail(groups), aliasMap) :
                s1 \in {SessionPanelLoop(st, Head(groups), aliasMap)}})

\* applyAliasesToNavigation on a document where the selectors select sel.nav
\* and sel.sess
navigationPass(st, sel, aliasMap) ==
    IF DOMAIN aliasMap = {} THEN st
    ELSE The({SessionPanelSelectors(s1, sel.sess, aliasMap) :
                s1 \in {NavigationSelectors(st, sel.nav, aliasMap)}})

applyAliasesToNavigation(st, aliasMap) ==
    navigationPass(st, [nav |-> <<NavigationSelected>>,
                        sess |-> <<SessionPanelSelected>>], aliasMap)

\* ------------------------------------------------------------------------
\* The MutationObserver callback (startDOMObserver, lines 365-404)
\* ------------------------------------------------------------------------

\* the inner loop over addedNodes: stops at the first element whose text matches
RECURSIVE TestAdded(_, _)
TestAdded(texts, li) ==
    IF texts = <<>> THEN [ok |-> FALSE, li |-> li]
    ELSE LET t == PatternTest(Head(texts), li)
         IN  IF t.ok THEN t ELSE TestAdded(Tail(texts), t.li)

\* [li, should]: lastIndex and shouldApplyAliases when the loop is left
RECURSIVE observerCallback(_, _, _)
observerCallback(recs, li, should) ==
    IF recs = <<>> THEN [li |-> li, should |-> should]
    ELSE LET r == Head(recs) IN
         IF r.type = "characterData"
         THEN LET t == PatternTest(r.text, li)
              IN  IF t.ok THEN [li |-> t.li, should |-> TRUE]
                  ELSE observerCallback(Tail(recs), t.li, should)
         ELSE IF Len(r.added) > 0
              THEN LET t == TestAdded(r.added, li)
                   IN  observerCallback(Tail(recs), t.li, should \/ t.ok)
              ELSE observerCallback(Tail(recs), li, should)

\* ------------------------------------------------------------------------
\* Inputs: identifiers, labels, mappings, texts
\* ------------------------------------------------------------------------
IdA == Rep("1", IdLen)
IdB == Rep("2", IdLen)
LabelP == <<"P">>
LabelQ == <<"Q">>

EmptyMap == [k \in {} |-> <<>>]
MapOf(id, label) == [k \in {id} |-> label]
MapOf2(id1, label1, id2, label2) ==
    [k \in {id1, id2} |-> IF k = id1 THEN label1 ELSE label2]

ArnText == ArnPrefix \o IdA \o <<":", "x">>

\* ------------------------------------------------------------------------
\* State
\* ------------------------------------------------------------------------
VARIABLES
    nodes,      \* own child nodes of every element of the document
    mark,       \* dataset.aliasApplied === 'true' of every element
    lastIndex,  \* AliasManager.ACCOUNT_ID_PATTERN.lastIndex
    input,      \* rewriting runs: the input text
    mapping,    \* rewriting runs: the mapping passed in
    outs,       \* rewriting runs: the results of the successive applications
    last,       \* annotator runs: the operation performed by the last step
    calls,      \* annotator runs: number of steps taken
    aliasMap,   \* content.js: the cached mapping
    stored,     \* the mapping persisted in chrome.storage.local
    phase,      \* "start" until initialize() has run, then "ready", or
                \* "failed" / "observing" when it threw
    debounce,   \* content.js: a debounceTimer is pending
    transitions,\* pending 500 ms timers of handlePageTransition
    clicks,     \* pending 100 ms timers of the click hook
    hooked,     \* hookSpecificElements has run
    loc,        \* window.location
    events,     \* number of events the environment has produced
    act,        \* the handler that ran in the last step
    track,      \* history the properties of the controller refer to
    deb,        \* timed runs of applyAliases(): clock, timeouts, passes
    faulty,     \* the elements whose processing throws
    storage,    \* chrome.storage.local under STORAGE_KEY
    dataPage,   \* document.body carries data-page="sessions-selector"
    flight      \* asynchronous chrome.storage calls that have read and not completed

vars == <<nodes, mark, lastIndex, input, mapping, outs, last, calls,
          aliasMap, stored, phase, debounce, transitions, clicks, hooked, loc,
          events, act, track, deb, faulty, storage, dataPage, flight>>

ctlVars == <<aliasMap, stored, phase, debounce, transitions, clicks, hooked, loc,
             events, act, track>>

domVars == <<nodes, mark, lastIndex>>
textVars == <<input, mapping, outs>>
annVars == <<last, calls>>
auxVars == <<deb, faulty, storage, dataPage, flight>>

State == [nodes |-> nodes, mark |-> mark, li |-> lastIndex, recs |-> <<>>,
          bad |-> faulty, seen |-> {}]

NoNodes == [e \in Elems |-> <<>>]
NoMarks == [e \in Elems |-> FALSE]
NoOp == [op |-> "none"]
NoTrack == [chg |-> "none", nav |-> "none", had |-> {}, shown |-> {}]
NoDeb == [now |-> 0, timers |-> <<>>, triggers |-> 0, passes |-> 0,
          bursts |-> 0, lastAt |-> -1, passAt |-> -1, passAfter |-> -1]

NoFlight == [kind |-> "none"]

\* the variables of the other runs at rest
AuxIdle ==
    /\ deb = NoDeb /\ faulty = {} /\ storage = EmptyMap /\ dataPage = FALSE
    /\ flight = NoFlight

\* the controller before the content script has started
CtlIdle ==
    /\ aliasMap = EmptyMap /\ stored = EmptyMap /\ phase = "start"
    /\ debounce = FALSE /\ transitions = 0 /\ clicks = 0 /\ hooked = FALSE
    /\ loc = "home" /\ events = 0 /\ act = "none" /\ track = NoTrack

\* ------------------------------------------------------------------------
\* Rewriting runs: applyAliasesToText applied to a text, then to its result
\* ------------------------------------------------------------------------
Frags == {IdA, formatAccountId(IdA), IdB, <<"1">>, <<" ">>, <<"x">>,
          Parens(LabelP), <<"(">>, <<")">>}

RECURSIVE TextsUpTo(_)
TextsUpTo(n) ==
    IF n = 0 THEN {<<>>}
    ELSE LET shorter == TextsUpTo(n - 1)
         IN  shorter \cup {t \o f : t \in shorter, f \in Frags}

TextMaps == {EmptyMap, MapOf(IdA, LabelP), MapOf(IdB, LabelQ),
             MapOf2(IdA, LabelP, IdB, LabelQ), MapOf(IdA, <<>>),
             MapOf(IdA, <<")", "(">>)}

InitText ==
    /\ input \in TextsUpTo(MaxFrags)
    /\ mapping \in TextMaps
    /\ outs = <<>>
    /\ nodes = NoNodes /\ mark = NoMarks /\ lastIndex = 0
    /\ last = NoOp /\ calls = 0
    /\ CtlIdle
    /\ AuxIdle

Rewrite ==
    /\ Len(outs) < 2
    /\ outs' = Append(outs, applyAliasesToText(
                   IF outs = <<>> THEN input ELSE outs[Len(outs)], mapping))
    /\ UNCHANGED <<nodes, mark, lastIndex, input, mapping, last, calls, ctlVars, auxVars>>

NextText == Rewrite

SpecText == InitText /\ [][NextText]_vars

\* ------------------------------------------------------------------------
\* Codec runs: formatAccountId applied to a string, normalizeAccountId
\* applied to its result
\* ------------------------------------------------------------------------
CodecParts == {Rep("1", GroupLen), Rep("2", GroupLen), <<"3", "3">>,
               Rep("4", IdLen - 2), <<"-">>, <<"x">>}

RECURSIVE StringsUpTo(_)
StringsUpTo(n) ==
    IF n = 0 THEN {<<>>}
    ELSE LET shorter == StringsUpTo(n - 1)
         IN  shorter \cup {t \o f : t \in shorter, f \in CodecParts}

InitCodec ==
    /\ input \in StringsUpTo(MaxParts)
    /\ mapping = EmptyMap
    /\ outs = <<>>
    /\ nodes = NoNodes /\ mark = NoMarks /\ lastIndex = 0
    /\ last = NoOp /\ calls = 0
    /\ CtlIdle
    /\ AuxIdle

CodecFormat ==
    /\ outs = <<>>
    /\ outs' = <<formatAccountId(input)>>
    /\ UNCHANGED <<nodes, mark, lastIndex, input, mapping, last, calls, ctlVars, auxVars>>

CodecNormalize ==
    /\ Len(outs) = 1
    /\ outs' = Append(outs, normalizeAccountId(outs[1]))
    /\ UNCHANGED <<nodes, mark, lastIndex, input, mapping, last, calls, ctlVars, auxVars>>

NextCodec == CodecFormat \/ CodecNormalize

SpecCodec == InitCodec /\ [][NextCodec]_vars

\* ------------------------------------------------------------------------
\* Annotator runs: applyAliasToElement, clearAliasesFromElement and the
\* pattern test of the callers, applied to the elements of a document
\* ------------------------------------------------------------------------
AnnMaps == {EmptyMap, MapOf(IdA, LabelP)}

AnnTargets == {"main", "code", "tok", "menu"}

OneText(t) == IF t = <<>> THEN <<>> ELSE <<TextNode(t)>>

AnnDocs ==
    {[e \in Elems |->
        CASE e = "main" -> OneText(m)
          [] e = "code" -> OneText(c)
          [] e = "tok" -> OneText(k)
          [] e = "menu" -> OneText(u)
          [] OTHER -> <<>>] :
     m \in {<<>>, <<"x", " ">> \o formatAccountId(IdA), ArnText},
     c \in {<<>>, IdA}, k \in {<<>>, IdA},
     u \in {IdA, IdA \o <<" ">> \o IdB}}

InitAnn ==
    /\ nodes \in AnnDocs
    /\ mark = NoMarks
    /\ lastIndex = 0
    /\ last = NoOp
    /\ calls = 0
    /\ input = <<>> /\ mapping = EmptyMap /\ outs = <<>>
    /\ CtlIdle
    /\ AuxIdle

\* AliasManager.applyAliasToElement(e, m)
AnnAnnotate(e, m) ==
    \E st \in {applyAliasToElement(State, e, m)} :
    /\ calls < MaxCalls
    /\ nodes' = st.nodes /\ mark' = st.mark /\ lastIndex' = st.li
    /\ last' = [op |-> "annotate", e |-> e, m |-> m,
                before |-> TextContent(nodes, e),
                excl |-> isExcludedElement(nodes, e),
                hadSpan |-> HasSpan(nodes, e),
                marked |-> mark[e],
                single |-> Len(TextRefs(nodes, e)) = 1 /\ Len(nodes[e]) = 1]
    /\ calls' = calls + 1
    /\ UNCHANGED <<textVars, ctlVars, auxVars>>

\* AliasManager.clearAliasesFromElement(e)
AnnClear(e) ==
    \E st \in {clearAliasesFromElement(State, e)} :
    /\ calls < MaxCalls
    /\ nodes' = st.nodes /\ mark' = st.mark /\ lastIndex' = st.li
    /\ last' = [op |-> "clear", e |-> e, prev |-> last]
    /\ calls' = calls + 1
    /\ UNCHANGED <<textVars, ctlVars, auxVars>>

\* AliasManager.ACCOUNT_ID_PATTERN.test(e.textContent), as the passes and the
\* mutation callback call it
AnnDetect(e) ==
    /\ calls < MaxCalls
    /\ lastIndex' = PatternTest(TextContent(nodes, e), lastIndex).li
    /\ last' = [op |-> "detect", e |-> e]
    /\ calls' = calls + 1
    /\ UNCHANGED <<nodes, mark, textVars, ctlVars, auxVars>>

NextAnn ==
    \/ \E e \in AnnTargets, m \in AnnMaps : AnnAnnotate(e, m)
    \/ \E e \in AnnTargets : AnnClear(e)
    \/ \E e \in AnnTargets : AnnDetect(e)

SpecAnn == InitAnn /\ [][NextAnn]_vars

\* ------------------------------------------------------------------------
\* Annotator runs with labels that hold parentheses
\* ------------------------------------------------------------------------
LabelRight == <<"a", ")", "b">>
LabelOnlyRight == <<")">>
LabelLeft == <<"(", "a">>

LabelMaps == {MapOf(IdA, l) : l \in {LabelP, LabelRight, LabelOnlyRight, LabelLeft}}

LabelTargets == {"main", "menu"}

LabelDocs ==
    {[e \in Elems |->
        CASE e = "code" -> OneText(c)
          [] e = "menu" -> OneText(u)
          [] OTHER -> <<>>] :
     c \in {<<>>, IdA}, u \in {IdA, <<"x", " ">> \o formatAccountId(IdA)}}

InitLabel ==
    /\ nodes \in LabelDocs
    /\ mark = NoMarks
    /\ lastIndex = 0
    /\ last = NoOp
    /\ calls = 0
    /\ input = <<>> /\ mapping = EmptyMap /\ outs = <<>>
    /\ CtlIdle
    /\ AuxIdle

NextLabel ==
    \/ \E e \in LabelTargets, m \in LabelMaps : AnnAnnotate(e, m)
    \/ \E e \in LabelTargets : AnnClear(e)

SpecLabel == InitLabel /\ [][NextLabel]_vars

\* ------------------------------------------------------------------------
\* Passes over documents some of whose elements make their processing throw
\* (the read of element.dataset.aliasApplied on an element without dataset)
\* ------------------------------------------------------------------------
FaultDocs ==
    {[e \in Elems |->
        CASE e = "nav" -> OneText(formatAccountId(IdA))
          [] e = "sess" -> OneText(a)
          [] e = "main" -> OneText(b)
          [] e = "menu" -> OneText(c)
          [] OTHER -> <<>>] :
     a \in {<<>>, IdA}, b \in {<<>>, IdA}, c \in {<<>>, IdA}}

FaultSets == SUBSET {"nav", "sess", "main"}

\* what the selectors of applyAliasesToNavigation select: the standard
\* selection, one session-panel selector selecting sess and menu, two
\* session-panel selectors selecting one of them each
FaultSelections ==
    {[nav |-> <<NavigationSelected>>, sess |-> <<SessionPanelSelected>>],
     [nav |-> <<NavigationSelected>>, sess |-> <<<<"sess", "menu">>>>],
     [nav |-> <<NavigationSelected>>, sess |-> <<<<"sess">>, <<"menu">>>>]}

SelectedBy(sel) ==
    UNION {Range(sel.nav[k]) : k \in 1..Len(sel.nav)}
    \cup UNION {Range(sel.sess[k]) : k \in 1..Len(sel.sess)}

InitFault ==
    /\ nodes \in FaultDocs
    /\ faulty \in FaultSets
    /\ aliasMap = MapOf(IdA, LabelP)
    /\ stored = aliasMap
    /\ mark = NoMarks /\ lastIndex = 0
    /\ phase = "ready"
    /\ debounce = FALSE /\ transitions = 0 /\ clicks = 0 /\ hooked = FALSE
    /\ loc = "home" /\ events = 0 /\ act = "none" /\ track = NoTrack
    /\ input = <<>> /\ mapping = EmptyMap /\ outs = <<>>
    /\ last = NoOp /\ calls = 0
    /\ deb = NoDeb /\ storage = EmptyMap /\ dataPage = FALSE /\ flight = NoFlight

\* applyAliasesToNavigation() on a document where the selectors select sel
FaultNavigationPass(sel) ==
    \E st \in {navigationPass(State, sel, aliasMap)} :
    /\ calls < MaxCalls
    /\ nodes' = st.nodes /\ mark' = st.mark /\ lastIndex' = st.li
    /\ last' = [op |-> "navigation", selected |-> SelectedBy(sel),
                seen |-> st.seen, marked |-> {x \in Elems : mark[x]}]
    /\ calls' = calls + 1
    /\ UNCHANGED <<textVars, ctlVars, auxVars>>

\* AliasManager.applyAliasesToPage(aliasMap)
FaultPagePass ==
    \E st \in {applyAliasesToPage(State, aliasMap)} :
    /\ calls < MaxCalls
    /\ nodes' = st.nodes /\ mark' = st.mark /\ lastIndex' = st.li
    /\ last' = [op |-> "page", selected |-> Elems,
                seen |-> st.seen, marked |-> {x \in Elems : mark[x]}]
    /\ calls' = calls + 1
    /\ UNCHANGED <<textVars, ctlVars, auxVars>>

NextFault ==
    \/ \E sel \in FaultSelections : FaultNavigationPass(sel)
    \/ FaultPagePass

SpecFault == InitFault /\ [][NextFault]_vars

\* ------------------------------------------------------------------------
\* Timed runs of applyAliases() (content.js 224-244): the debounce timeout
\* against a clock.  deb.timers holds the instants at which the pending
\* debounce timeouts are due.  A timeout that is due runs before the clock
\* advances and before a trigger of the same instant.
\* ------------------------------------------------------------------------

\* lines 230-243 without clearTimeout: one timeout queued per trigger
resetDebounceTimer_NoClear(timers, now) == Append(timers, now + WindowTicks)

\* lines 230-243: clearTimeout(debounceTimer), then setTimeout(..., 100)
resetDebounceTimer(timers, now) == <<now + WindowTicks>>

DebounceMaps == {EmptyMap, MapOf(IdA, LabelP)}

InitDebounce ==
    /\ deb = NoDeb /\ faulty = {} /\ storage = EmptyMap /\ dataPage = FALSE
    /\ flight = NoFlight
    /\ aliasMap \in DebounceMaps
    /\ stored = aliasMap
    /\ phase = "ready"
    /\ debounce = FALSE /\ transitions = 0 /\ clicks = 0 /\ hooked = FALSE
    /\ loc = "home" /\ events = 0 /\ act = "none" /\ track = NoTrack
    /\ nodes = NoNodes /\ mark = NoMarks /\ lastIndex = 0
    /\ input = <<>> /\ mapping = EmptyMap /\ outs = <<>>
    /\ last = NoOp /\ calls = 0

DueNow == \E k \in 1..Len(deb.timers) : deb.timers[k] = deb.now

\* a trigger (observer callback, interval, transition, start-up) calls
\* applyAliases(), lines 224-244
TimedTrigger ==
    /\ UNCHANGED <<faulty, storage, dataPage, flight>>
    /\ deb.triggers < MaxTriggers
    /\ ~DueNow
    /\ IF DOMAIN aliasMap = {}
       THEN deb' = [deb EXCEPT !.triggers = @ + 1]
       ELSE deb' = [deb EXCEPT
                      !.triggers = @ + 1,
                      !.timers = resetDebounceTimer(@, deb.now),
                      !.bursts = IF deb.lastAt < 0
                                    \/ deb.now - deb.lastAt >= WindowTicks
                                 THEN @ + 1 ELSE @,
                      !.lastAt = deb.now]
    /\ debounce' = (deb'.timers # <<>>)
    /\ act' = "trigger"
    /\ UNCHANGED <<domVars, textVars, annVars, aliasMap, stored, phase,
                   transitions, clicks, hooked, loc, events, track>>

\* the callback of a debounce timeout that is due, lines 234-243
TimedFire ==
    /\ UNCHANGED <<faulty, storage, dataPage, flight>>
    /\ \E k \in 1..Len(deb.timers) :
          /\ deb.timers[k] = deb.now
          /\ deb' = [deb EXCEPT
                       !.timers = SubSeq(@, 1, k - 1) \o SubSeq(@, k + 1, Len(@)),
                       !.passes = @ + 1,
                       !.passAt = deb.now,
                       !.passAfter = deb.lastAt]
    /\ debounce' = (deb'.timers # <<>>)
    /\ act' = "pass"
    /\ UNCHANGED <<domVars, textVars, annVars, aliasMap, stored, phase,
                   transitions, clicks, hooked, loc, events, track>>

\* one tick of the clock
Tick ==
    /\ UNCHANGED <<faulty, storage, dataPage, flight>>
    /\ deb.now < MaxTicks
    /\ ~DueNow
    /\ deb' = [deb EXCEPT !.now = @ + 1]
    /\ act' = "tick"
    /\ UNCHANGED <<domVars, textVars, annVars, aliasMap, stored, phase, debounce,
                   transitions, clicks, hooked, loc, events, track>>

NextDebounce == TimedTrigger \/ TimedFire \/ Tick

SpecDebounce == InitDebounce /\ [][NextDebounce]_vars

\* ------------------------------------------------------------------------
\* The reactive controller (src/content/content.js)
\* ------------------------------------------------------------------------
Locations == {"home", "service"}

ConsoleHost == <<"c", "o", "n", "s", "o", "l", "e", ".", "a", "w", "s", ".", "a", "m", "a", "z", "o", "n", ".", "c", "o", "m">>
SigninHost == <<"s", "i", "g", "n", "i", "n", ".", "a", "w", "s", ".", "a", "m", "a", "z", "o", "n", ".", "c", "o", "m">>

\* window.location at each named location: pathname and hostname
Window(l) ==
    CASE l = "home" -> [path |-> <<"/", "c", "o", "n", "s", "o", "l", "e", "/", "h", "o", "m", "e">>, host |-> ConsoleHost]
      [] l = "service" -> [path |-> <<"/", "e", "c", "2", "/", "h", "o", "m", "e">>, host |-> ConsoleHost]
      [] l = "redirect" -> [path |-> <<"/", "c", "o", "n", "s", "o", "l", "e", "/">>, host |-> ConsoleHost]
      [] l = "console" -> [path |-> <<"/", "c", "o", "n", "s", "o", "l", "e">>, host |-> ConsoleHost]
      [] l = "selector" -> [path |-> <<"/", "s", "e", "s", "s", "i", "o", "n", "s", "/", "s", "e", "l", "e", "c", "t", "o", "r">>, host |-> ConsoleHost]
      [] l = "signin" -> [path |-> <<"/", "o", "a", "u", "t", "h">>, host |-> SigninHost]
      [] l = "regional" -> [path |-> <<"/", "o", "a", "u", "t", "h">>, host |-> <<"e", "u", ".">> \o SigninHost]
      [] OTHER -> [path |-> <<"/">>, host |-> ConsoleHost]

\* shouldApplyAliases(), lines 76-95
allowedPaths == <<<<"/", "c", "o", "n", "s", "o", "l", "e", "/", "h", "o", "m", "e">>, <<"/", "c", "o", "n", "s", "o", "l", "e", "/">>, <<"/", "s", "e", "s", "s", "i", "o", "n", "s", "/", "s", "e", "l", "e", "c", "t", "o", "r">>>>

\* shouldApplyAliases() without the sign-in host test
shouldApplyAliases_PathOnly(l) ==
    \E i \in 1..Len(allowedPaths) : Includes(Window(l).path, allowedPaths[i])

shouldApplyAliases(l) ==
    LET currentPath == Window(l).path
        currentHost == Window(l).host
        isAllowedPath == \E i \in 1..Len(allowedPaths) : Includes(currentPath, allowedPaths[i])
        isSigninDomain == Includes(currentHost, <<"s", "i", "g", "n", "i", "n", ".", "a", "w", "s", ".", "a", "m", "a", "z", "o", "n", ".", "c", "o", "m">>)
    IN  isAllowedPath \/ isSigninDomain

\* detectAndMarkPageType(), lines 21-35: the attribute is set on a selector
\* view and is never removed
detectAndMarkPageType(tag, l) ==
    LET currentPath == Window(l).path
        currentHost == Window(l).host
    IN  IF Includes(currentPath, <<"/", "s", "e", "s", "s", "i", "o", "n", "s", "/", "s", "e", "l", "e", "c", "t", "o", "r">>) \/ Includes(currentHost, <<"s", "i", "g", "n", "i", "n", ".", "a", "w", "s", ".", "a", "m", "a", "z", "o", "n", ".", "c", "o", "m">>)
        THEN TRUE
        ELSE tag

StoredMaps == {EmptyMap, MapOf(IdA, LabelP), MapOf(IdA, LabelQ)}

EngineDocs ==
    {[e \in Elems |->
        CASE e = "title" -> OneText(t)
          [] e = "nav" -> OneText(formatAccountId(IdA))
          [] e = "sess" -> OneText(IdA)
          [] e = "code" -> OneText(IdA)
          [] e = "menu" -> OneText(IdA)
          [] OTHER -> <<>>] :
     t \in {IdA, ArnText}}

HostTargets == {"title", "sess", "menu"}
HostTexts == {IdA, ArnText}

Init ==
    /\ nodes \in EngineDocs
    /\ mark = NoMarks
    /\ lastIndex = 0
    /\ stored \in StoredMaps
    /\ loc \in Locations
    /\ aliasMap = EmptyMap
    /\ phase = "start"
    /\ debounce = FALSE /\ transitions = 0 /\ clicks = 0 /\ hooked = FALSE
    /\ events = 0 /\ act = "none" /\ track = NoTrack
    /\ input = <<>> /\ mapping = EmptyMap /\ outs = <<>>
    /\ last = NoOp /\ calls = 0
    /\ AuxIdle

\* applyAliases(): the value of "a debounce timer is pending" after the call
applyAliases(m, pending) == IF DOMAIN m = {} THEN pending ELSE TRUE

\* startDOMObserver() has run: initialize() completed ("ready") or failed
\* after it ("observing")
ObserverConnected == phase \in {"ready", "observing"}

\* The end of a task of the content script: the state st the handler left and
\* pending, the debounce flag it left.  When the observer is connected and the
\* handler queued mutation records, the observer callback runs on them.
EndTask(st, m, pending) ==
    \E cb \in {IF ObserverConnected /\ st.recs # <<>>
               THEN observerCallback(st.recs, st.li, FALSE)
               ELSE [li |-> st.li, should |-> FALSE]} :
        /\ nodes' = st.nodes
        /\ mark' = st.mark
        /\ lastIndex' = cb.li
        /\ debounce' = IF cb.should THEN applyAliases(m, pending) ELSE pending

\* the elements the navigation-scope pass selects
NavigationScope == Range(NavigationSelected) \cup Range(SessionPanelSelected)

SpansOutsideNavigation(ns) ==
    \E x \in Elems :
        /\ \A n \in NavigationScope : ~Under(x, n)
        /\ \E i \in 1..Len(ns[x]) : ns[x][i].span

\* initialize(), lines 40-71: the mapping is fetched, the first pass is
\* scheduled, the observer is connected, the change listener and the history
\* hooks are installed
Initialize ==
    /\ phase = "start"
    /\ phase' = "ready"
    /\ aliasMap' = stored
    /\ debounce' = applyAliases(stored, debounce)
    /\ act' = "initialize"
    /\ dataPage' = detectAndMarkPageType(dataPage, loc)
    /\ UNCHANGED <<nodes, mark, lastIndex, stored, transitions, clicks, hooked,
                   loc, events, track, textVars, annVars, deb, faulty, storage, flight>>

\* the body of the debounce callback, lines 235-243, at location l: the
\* navigation-scope pass, then the page-content pass where l is eligible
debouncedPass(st, m, l) ==
    The({IF shouldApplyAliases(l) THEN applyAliasesToPage(st1, m) ELSE st1 :
         st1 \in {applyAliasesToNavigation(st, m)}})

\* the callback of the debounce timer, lines 234-243
DebounceFire ==
    /\ debounce
    /\ \E st2 \in {debouncedPass(State, aliasMap, loc)} :
        /\ EndTask(st2, aliasMap, FALSE)
        /\ act' = "pass"
        /\ track' = [track EXCEPT
                       !.chg = IF @ = "cleared" THEN "done" ELSE @,
                       !.nav = IF @ = "stripped" THEN "passed" ELSE "none",
                       !.shown = {}]
        /\ UNCHANGED <<aliasMap, stored, phase, transitions, clicks, hooked, loc,
                       events, textVars, annVars, auxVars>>

\* the 3000 ms interval timer, lines 667-671
PeriodicTimer ==
    /\ DOMAIN aliasMap # {}
    /\ ~debounce
    /\ debounce' = applyAliases(aliasMap, debounce)
    /\ act' = "interval"
    /\ UNCHANGED <<nodes, mark, lastIndex, aliasMap, stored, phase, transitions,
                   clicks, hooked, loc, events, track, textVars, annVars, auxVars>>

\* the 2000 ms start-up timer, lines 661-664
StartupTimer ==
    /\ ~hooked
    /\ hooked' = TRUE
    /\ debounce' = applyAliases(aliasMap, debounce)
    /\ act' = "startup"
    /\ UNCHANGED <<nodes, mark, lastIndex, aliasMap, stored, phase, transitions,
                   clicks, loc, events, track, textVars, annVars, auxVars>>

\* chrome.storage.local is written by another context; when the listener of
\* lines 55-61 is installed it replaces the cache, clears the document and
\* schedules the pass
\* an own node of x displays "(l)": a Labeled Span holding it, or a Text
\* node whose text includes it
ShowsLabel(ns, x, l) ==
    \E i \in 1..Len(ns[x]) :
        IF ns[x][i].span THEN ns[x][i].text = Parens(l)
        ELSE Includes(ns[x][i].text, Parens(l))

StorageChange(m) ==
    /\ events < MaxEvents
    /\ m # stored
    /\ stored' = m
    /\ events' = events + 1
    /\ act' = "storage"
    /\ IF phase = "ready"
       THEN /\ aliasMap' = m
            /\ \E st \in {clearAliasesFromElement(State, "body")} :
                   EndTask(st, m, applyAliases(m, debounce))
            /\ track' = [track EXCEPT
                           !.chg = IF DOMAIN m = {} THEN "done" ELSE "cleared",
                           !.nav = "none",
                           !.shown = {x \in Elems :
                                        \E l \in MapValues(aliasMap) :
                                            ShowsLabel(nodes, x, l)}]
       ELSE UNCHANGED <<aliasMap, nodes, mark, lastIndex, debounce, track>>
    /\ UNCHANGED <<phase, transitions, clicks, hooked, loc, textVars, annVars, auxVars>>

\* history.pushState / replaceState / popstate: handlePageTransition, lines
\* 444-462, up to the setTimeout
Navigate(l) ==
    /\ phase = "ready"
    /\ events < MaxEvents
    /\ l # loc
    /\ loc' = l
    /\ transitions' = transitions + 1
    /\ events' = events + 1
    /\ act' = "navigate"
    /\ track' = [track EXCEPT !.nav = "none"]
    /\ dataPage' = detectAndMarkPageType(dataPage, l)
    /\ UNCHANGED <<nodes, mark, lastIndex, aliasMap, stored, phase, debounce,
                   clicks, hooked, textVars, annVars, deb, faulty, storage, flight>>

\* the 500 ms timer of handlePageTransition, lines 452-461
TransitionFire ==
    LET strip == ~shouldApplyAliases(loc)
    IN  /\ transitions > 0
        /\ transitions' = transitions - 1
        /\ \E st \in {IF strip THEN clearPageContentAliases(State) ELSE State} :
               EndTask(st, aliasMap, applyAliases(aliasMap, debounce))
        /\ act' = "transition"
        /\ track' = [track EXCEPT
                       !.nav = IF strip THEN "stripped" ELSE "none",
                       !.had = IF strip
                               THEN {n \in NavigationScope : HasSpan(nodes, n)}
                               ELSE {}]
        /\ UNCHANGED <<aliasMap, stored, phase, clicks, hooked, loc, events,
                       textVars, annVars, auxVars>>

\* a click on the document once the hook of lines 487-497 is installed
Click ==
    /\ hooked
    /\ events < MaxEvents
    /\ clicks' = clicks + 1
    /\ events' = events + 1
    /\ act' = "clicked"
    /\ UNCHANGED <<nodes, mark, lastIndex, aliasMap, stored, phase, debounce,
                   transitions, hooked, loc, track, textVars, annVars, auxVars>>

\* the 100 ms timer of the click hook: the [role="menu"] element is annotated
ClickFire ==
    /\ clicks > 0
    /\ clicks' = clicks - 1
    /\ \E st \in {applyAliasToElement(State, "menu", aliasMap)} :
           EndTask(st, aliasMap, debounce)
    /\ act' = "click"
    /\ track' = [track EXCEPT !.nav = "none"]
    /\ UNCHANGED <<aliasMap, stored, phase, transitions, hooked, loc, events,
                   textVars, annVars, auxVars>>

\* the host page replaces element e by a fresh one holding the text t
HostReplace(e, t) ==
    LET ns == [nodes EXCEPT ![e] = OneText(t)]
    IN  /\ events < MaxEvents
        /\ nodes[e] # OneText(t)
        /\ events' = events + 1
        /\ \E st \in {[nodes |-> ns,
                        mark |-> [mark EXCEPT ![e] = FALSE],
                        li |-> lastIndex,
                        recs |-> IF Observed(e)
                                 THEN <<ChildList(<<TextContent(ns, e)>>)>>
                                 ELSE <<>>]} :
               EndTask(st, aliasMap, debounce)
        /\ act' = "host"
        /\ track' = [track EXCEPT !.nav = "none"]
        /\ UNCHANGED <<aliasMap, stored, phase, transitions, clicks, hooked, loc,
                       textVars, annVars, auxVars>>

\* the host page sets the data of the first Text node of e to t
HostSetData(e, t) ==
        /\ events < MaxEvents
        /\ nodes[e] # <<>>
        /\ ~nodes[e][1].span
        /\ nodes[e][1].text # t
        /\ events' = events + 1
        /\ \E st \in {[nodes |-> [nodes EXCEPT ![e][1] = TextNode(t)],
                        mark |-> mark,
                        li |-> lastIndex,
                        recs |-> IF Observed(e) THEN <<CharacterData(t)>>
                                 ELSE <<>>]} :
               EndTask(st, aliasMap, debounce)
        /\ act' = "host"
        /\ track' = [track EXCEPT !.nav = "none"]
        /\ UNCHANGED <<aliasMap, stored, phase, transitions, clicks, hooked, loc,
                       textVars, annVars, auxVars>>

Next ==
    \/ Initialize
    \/ DebounceFire
    \/ PeriodicTimer
    \/ StartupTimer
    \/ \E m \in StoredMaps : StorageChange(m)
    \/ \E l \in Locations : Navigate(l)
    \/ TransitionFire
    \/ Click
    \/ ClickFire
    \/ \E e \in HostTargets, t \in HostTexts : HostReplace(e, t)
    \/ \E e \in HostTargets, t \in HostTexts : HostSetData(e, t)

Spec == Init /\ [][Next]_vars

\* ------------------------------------------------------------------------
\* The controller when initialize() fails (the catch of lines 68-70)
\* ------------------------------------------------------------------------
InitStages == {"fetch", "subscribe"}

\* initialize() throws at the mapping fetch (line 46) or in
\* StorageManager.watchChanges (line 55); the statements before the throw
\* have run, the catch logs the error
InitializeFails(stage) ==
    /\ phase = "start"
    /\ phase' = IF stage = "subscribe" THEN "observing" ELSE "failed"
    /\ aliasMap' = IF stage = "fetch" THEN aliasMap ELSE stored
    /\ debounce' = IF stage = "fetch" THEN debounce
                   ELSE applyAliases(stored, debounce)
    /\ act' = "initialize"
    /\ dataPage' = detectAndMarkPageType(dataPage, loc)
    /\ UNCHANGED <<nodes, mark, lastIndex, stored, transitions, clicks, hooked,
                   loc, events, track, textVars, annVars, deb, faulty, storage, flight>>

NextInitFails ==
    \/ \E stage \in InitStages : InitializeFails(stage)
    \/ DebounceFire
    \/ PeriodicTimer
    \/ StartupTimer
    \/ \E m \in StoredMaps : StorageChange(m)
    \/ Click
    \/ ClickFire
    \/ \E e \in HostTargets, t \in HostTexts : HostReplace(e, t)
    \/ \E e \in HostTargets, t \in HostTexts : HostSetData(e, t)

SpecInitFails == Init /\ [][NextInitFails]_vars

\* ------------------------------------------------------------------------
\* The mutation observer: host mutations reported to observerCallback
\* ------------------------------------------------------------------------
ObserverMaps == {EmptyMap, MapOf(IdA, LabelP)}
ObserverTexts == {IdA, <<"x">>}

\* the content script after initialize(): the observer is connected and,
\* under a non-empty mapping, the first pass is pending
InitObserver ==
    /\ nodes \in EngineDocs
    /\ mark = NoMarks
    /\ lastIndex = 0
    /\ aliasMap \in ObserverMaps
    /\ stored = aliasMap
    /\ loc \in Locations
    /\ phase = "ready"
    /\ debounce = applyAliases(aliasMap, FALSE)
    /\ transitions = 0 /\ clicks = 0 /\ hooked = FALSE
    /\ events = 0 /\ act = "none" /\ track = NoTrack
    /\ input = <<>> /\ mapping = EmptyMap /\ outs = <<>>
    /\ last = NoOp /\ calls = 0
    /\ AuxIdle

\* the host page appends a Text node holding t to element e: the record of
\* the addition lists no element (lines 383-385 test the node type)
HostAppendText(e, t) ==
        /\ events < MaxEvents
        /\ events' = events + 1
        /\ \E st \in {[nodes |-> [nodes EXCEPT ![e] = Append(@, TextNode(t))],
                        mark |-> mark,
                        li |-> lastIndex,
                        recs |-> IF Observed(e) THEN <<ChildList(<<>>)>>
                                 ELSE <<>>]} :
               EndTask(st, aliasMap, debounce)
        /\ act' = "host"
        /\ track' = [track EXCEPT !.nav = "none"]
        /\ UNCHANGED <<aliasMap, stored, phase, transitions, clicks, hooked, loc,
                       textVars, annVars, auxVars>>

NextObserver ==
    \/ DebounceFire
    \/ \E e \in HostTargets, t \in ObserverTexts : HostReplace(e, t)
    \/ \E e \in HostTargets, t \in ObserverTexts : HostSetData(e, t)
    \/ \E e \in HostTargets, t \in ObserverTexts : HostAppendText(e, t)

SpecObserver == InitObserver /\ [][NextObserver]_vars

\* ------------------------------------------------------------------------
\* The observer with the interval timer, under the scheduling of the event
\* loop: a timer that is due fires
\* ------------------------------------------------------------------------
NextLive == NextObserver \/ PeriodicTimer

\* The 100 ms timer fires once it is set: weak fairness of DebounceFire,
\* stated with its enabling condition (debounce) and its step (the only one
\* that sets act to "pass").  The interval timer fires: WF of PeriodicTimer.
DebounceFair == []<>(~debounce) \/ []<><<act' = "pass">>_vars

SpecLive ==
    /\ InitObserver
    /\ [][NextLive]_vars
    /\ DebounceFair
    /\ WF_vars(PeriodicTimer)

\* ------------------------------------------------------------------------
\* The controller over every kind of location: start-up, navigations and the
\* passes they schedule
\* ------------------------------------------------------------------------
LocationPool == {"home", "service", "redirect", "console", "selector", "signin",
                 "regional", "root"}

InitLocation ==
    /\ nodes \in EngineDocs
    /\ mark = NoMarks
    /\ lastIndex = 0
    /\ stored = MapOf(IdA, LabelP)
    /\ loc \in LocationPool
    /\ aliasMap = EmptyMap
    /\ phase = "start"
    /\ debounce = FALSE /\ transitions = 0 /\ clicks = 0 /\ hooked = FALSE
    /\ events = 0 /\ act = "none" /\ track = NoTrack
    /\ input = <<>> /\ mapping = EmptyMap /\ outs = <<>>
    /\ last = NoOp /\ calls = 0
    /\ AuxIdle

NextLocation ==
    \/ Initialize
    \/ DebounceFire
    \/ \E l \in LocationPool : Navigate(l)
    \/ TransitionFire

SpecLocation == InitLocation /\ [][NextLocation]_vars

\* ------------------------------------------------------------------------
\* initialize() with its asynchronous mapping fetch: chrome.storage.local.get
\* reads the store when the browser handles the call, the content script
\* continues when the result arrives, and only then adds its onChanged
\* listener; writes of other contexts happen at any moment
\* ------------------------------------------------------------------------

\* initialize(), lines 43-46, and getAllAliases: the store is read
FetchSent ==
    /\ phase = "start"
    /\ phase' = "fetching"
    /\ flight' = [kind |-> "get", value |-> stored]
    /\ dataPage' = detectAndMarkPageType(dataPage, loc)
    /\ act' = "initialize"
    /\ UNCHANGED <<nodes, mark, lastIndex, aliasMap, stored, debounce, transitions,
                   clicks, hooked, loc, events, track, textVars, annVars, deb,
                   faulty, storage>>

\* initialize(), lines 46-61: the result arrives, the first pass is
\* scheduled, StorageManager.watchChanges adds the listener
FetchResolved ==
    /\ phase = "fetching"
    /\ phase' = "ready"
    /\ aliasMap' = flight.value
    /\ debounce' = applyAliases(flight.value, debounce)
    /\ flight' = NoFlight
    /\ act' = "initialize"
    /\ UNCHANGED <<nodes, mark, lastIndex, stored, transitions, clicks, hooked,
                   loc, events, track, textVars, annVars, deb, faulty, storage,
                   dataPage>>

NextCache ==
    \/ FetchSent
    \/ FetchResolved
    \/ \E m \in StoredMaps : StorageChange(m)
    \/ DebounceFire

SpecCache == Init /\ [][NextCache]_vars

\* ------------------------------------------------------------------------
\* The alias store: StorageManager, the message handlers of the service
\* worker, and the popup that calls StorageManager
\* ------------------------------------------------------------------------

\* the values JSON.parse can return (a number stands for a non-zero one)
JNull == [type |-> "null", text |-> <<>>, fields |-> EmptyMap]
JNumber == [type |-> "number", text |-> <<>>, fields |-> EmptyMap]
JString(s) == [type |-> "string", text |-> s, fields |-> EmptyMap]
JObject(f) == [type |-> "object", text |-> <<>>, fields |-> f]

\* !v
Truthy(v) ==
    CASE v.type = "null" -> FALSE
      [] v.type = "string" -> v.text # <<>>
      [] OTHER -> TRUE

\* typeof v === 'object'
TypeofObject(v) == v.type \in {"object", "null"}

\* String.prototype.trim
RECURSIVE Trim(_)
Trim(s) ==
    IF s = <<>> THEN s
    ELSE IF Head(s) = " " THEN Trim(Tail(s))
    ELSE IF s[Len(s)] = " " THEN Trim(SubSeq(s, 1, Len(s) - 1))
    ELSE s

\* /^\d{12}$/.test(accountId)
IsAccountIdKey(accountId) ==
    Len(accountId) = IdLen /\ AllDigits(accountId, 1, IdLen)

\* popup.js: /^(\d{12}|\d{4}-\d{4}-\d{4})$/.test(accountId)
validateAccountIdFormat(accountId) ==
    \/ IsAccountIdKey(accountId)
    \/ /\ Len(accountId) = IdLen + 2
       /\ AllDigits(accountId, 1, GroupLen)
       /\ accountId[GroupLen + 1] = "-"
       /\ AllDigits(accountId, GroupLen + 2, GroupLen)
       /\ accountId[2 * GroupLen + 2] = "-"
       /\ AllDigits(accountId, 2 * GroupLen + 3, GroupLen)

\* the text handed to an import: empty, not JSON, or the JSON text of value
EmptyText == [kind |-> "empty", value |-> JNull]
GarbageText == [kind |-> "garbage", value |-> JNull]
JSONText(v) == [kind |-> "json", value |-> v]

\* JSON.parse(text): a SyntaxError unless the text is JSON
JSONParse(text) == [ok |-> text.kind = "json", value |-> text.value]

KeyVersion == <<"v", "e", "r", "s", "i", "o", "n">>
KeyExportedAt == <<"e", "x", "p", "o", "r", "t", "e", "d", "A", "t">>
KeyAliases == <<"a", "l", "i", "a", "s", "e", "s">>

\* StorageManager.exportAliases(): JSON.stringify(aliases, null, 2)
exportAliases(aliases) == JSONText(JObject(aliases))

\* handleExportAliases: {version, exportedAt, aliases}
handleExportAliases(aliases) ==
    JSONText(JObject([k \in {KeyVersion, KeyExportedAt, KeyAliases} |->
        IF k = KeyAliases THEN JObject(aliases)
        ELSE IF k = KeyVersion THEN JString(<<"1", ".", "0", ".", "0">>)
        ELSE JString(<<"t">>)]))

\* the outcome of one operation: what storage holds afterwards, how the call
\* ended, the message of the error, and whether chrome.storage was written
\* (a write is what makes chrome.storage.onChanged fire)
Written(aliases) ==
    [storage |-> aliases, outcome |-> "ok", error |-> "", wrote |-> TRUE]
Thrown(aliases, message) ==
    [storage |-> aliases, outcome |-> "error", error |-> message, wrote |-> FALSE]
Returned(aliases, outcome) ==
    [storage |-> aliases, outcome |-> outcome, error |-> "", wrote |-> FALSE]

\* StorageManager.setAlias(accountId, alias)
setAlias(aliases, accountId, alias) ==
    Written([k \in DOMAIN aliases \cup {accountId} |->
                IF k = accountId THEN alias ELSE aliases[k]])

\* StorageManager.removeAlias(accountId)
removeAlias(aliases, accountId) ==
    Written([k \in DOMAIN aliases \ {accountId} |-> aliases[k]])

\* StorageManager.clearAllAliases(): chrome.storage.local.remove
clearAllAliases(aliases) == Written(EmptyMap)

\* an import that stores the parsed object before it validates the keys
importAliases_StoreFirst(aliases, jsonData) ==
    LET parsed == JSONParse(jsonData) IN
    IF ~parsed.ok
    THEN Thrown(aliases, "Failed to import aliases: Unexpected token")
    ELSE IF parsed.value.type # "object"
    THEN Thrown(aliases, "Failed to import aliases: Invalid alias data format")
    ELSE IF \E k \in DOMAIN parsed.value.fields : ~IsAccountIdKey(k)
    THEN [Thrown(parsed.value.fields,
                 "Failed to import aliases: Invalid account ID")
             EXCEPT !.wrote = TRUE]
    ELSE Written(parsed.value.fields)

\* StorageManager.importAliases(jsonData)
importAliases(aliases, jsonData) ==
    LET parsed == JSONParse(jsonData) IN
    IF ~parsed.ok
    THEN Thrown(aliases, "Failed to import aliases: Unexpected token")
    ELSE IF parsed.value.type # "object"
    THEN Thrown(aliases, "Failed to import aliases: Invalid alias data format")
    ELSE IF \E k \in DOMAIN parsed.value.fields : ~IsAccountIdKey(k)
    THEN Thrown(aliases, "Failed to import aliases: Invalid account ID")
    ELSE Written(parsed.value.fields)

\* handleSetAlias: the 'setAlias' message
handleSetAlias(aliases, accountId, alias) ==
    IF accountId = <<>> \/ ~Truthy(alias)
    THEN Thrown(aliases, "Account ID and alias are required")
    ELSE setAlias(aliases, accountId, alias)

\* handleRemoveAlias: the 'removeAlias' message
handleRemoveAlias(aliases, accountId) ==
    IF accountId = <<>>
    THEN Thrown(aliases, "Account ID is required")
    ELSE removeAlias(aliases, accountId)

\* handleClearAllAliases: chrome.storage.local.set({aws_account_aliases: {}})
handleClearAllAliases(aliases) == Written(EmptyMap)

\* lines 264-271: typeof alias !== 'string' || !alias.trim()
InvalidAlias(alias) == alias.type # "string" \/ Trim(alias.text) = <<>>

\* handleImportAliases: the 'importAliases' message
handleImportAliases(aliases, data) ==
    LET parsed == JSONParse(data)
        importData == parsed.value
        v1 == /\ importData.type = "object"
              /\ KeyAliases \in DOMAIN importData.fields
              /\ Truthy(importData.fields[KeyAliases])
              /\ TypeofObject(importData.fields[KeyAliases])
        imported == IF v1 THEN importData.fields[KeyAliases].fields
                    ELSE importData.fields
    IN
    IF data.kind = "empty" THEN Thrown(aliases, "Import data is required")
    ELSE IF ~parsed.ok THEN Thrown(aliases, "Invalid JSON format")
    ELSE IF importData.type = "null"
    THEN Thrown(aliases, "Cannot read properties of null (reading 'aliases')")
    ELSE IF ~v1 /\ ~TypeofObject(importData)
    THEN Thrown(aliases, "Invalid data format")
    ELSE IF \E k \in DOMAIN imported : ~IsAccountIdKey(k)
    THEN Thrown(aliases, "Invalid account ID")
    ELSE IF \E k \in DOMAIN imported : InvalidAlias(imported[k])
    THEN Thrown(aliases, "Invalid alias for account")
    ELSE Written(imported)

\* popup.js handleAddAlias: the form of the popup; currentAliases is the
\* mapping the popup loaded from the store
handleAddAlias(currentAliases, accountIdInput, aliasNameInput, confirmed) ==
    LET inputAccountId == Trim(accountIdInput)
        aliasName == Trim(aliasNameInput)
        normalizedAccountId == normalizeAccountId(inputAccountId)
    IN
    IF ~validateAccountIdFormat(inputAccountId) \/ aliasName = <<>>
    THEN Returned(currentAliases, "rejected")
    ELSE IF /\ normalizedAccountId \in DOMAIN currentAliases
            /\ Truthy(currentAliases[normalizedAccountId])
            /\ ~confirmed
    THEN Returned(currentAliases, "cancelled")
    ELSE setAlias(currentAliases, normalizedAccountId, JString(aliasName))

\* popup.js handleEditAlias: prompt() for a listed account
handleEditAlias(currentAliases, accountId, newAlias) ==
    IF newAlias.type = "null" \/ newAlias = currentAliases[accountId]
    THEN Returned(currentAliases, "cancelled")
    ELSE IF Trim(newAlias.text) = <<>>
    THEN Returned(currentAliases, "rejected")
    ELSE setAlias(currentAliases, accountId, JString(Trim(newAlias.text)))

\* popup.js handleDeleteAlias: the delete button of a listed account
handleDeleteAlias(currentAliases, accountId, confirmed) ==
    IF ~confirmed THEN Returned(currentAliases, "cancelled")
    ELSE removeAlias(currentAliases, accountId)

\* popup.js handleClearAll
handleClearAll(currentAliases, confirmed) ==
    IF DOMAIN currentAliases = {} \/ ~confirmed
    THEN Returned(currentAliases, "cancelled")
    ELSE clearAllAliases(currentAliases)

\* popup.js handleFileImport: the text of the chosen file
handleFileImport(currentAliases, text, confirmed) ==
    IF DOMAIN currentAliases # {} /\ ~confirmed
    THEN Returned(currentAliases, "cancelled")
    ELSE importAliases(currentAliases, text)

\* what the environment hands to the store
BadKey == <<"a", "b", "c">>
StoreKeys == {IdA, IdB, BadKey}
StoreAliases == {JString(LabelP), JString(<<>>), JString(<<" ">>), JNumber}
ImportMaps ==
    {EmptyMap}
    \cup {[k \in {IdA} |-> v] : v \in StoreAliases \cup {JString(LabelQ)}}
    \cup {[k \in {IdB, x} |-> JString(LabelQ)] : x \in {IdA, BadKey}}
ImportTexts ==
    {EmptyText, GarbageText, JSONText(JNull), JSONText(JNumber),
     JSONText(JString(LabelP))}
    \cup {exportAliases(m) : m \in ImportMaps}
    \cup {handleExportAliases(m) : m \in ImportMaps}
Requests ==
    {[action |-> "setAlias", accountId |-> k, alias |-> v, data |-> EmptyText] :
        k \in StoreKeys \cup {<<>>}, v \in StoreAliases}
    \cup {[action |-> "removeAlias", accountId |-> k, alias |-> JNull,
           data |-> EmptyText] : k \in StoreKeys \cup {<<>>}}
    \cup {[action |-> "clearAllAliases", accountId |-> <<>>, alias |-> JNull,
           data |-> EmptyText]}
    \cup {[action |-> "importAliases", accountId |-> <<>>, alias |-> JNull,
           data |-> t] : t \in ImportTexts}

InitStore ==
    /\ storage \in {EmptyMap, [k \in {IdA} |-> JString(LabelP)]}
    /\ last = NoOp /\ calls = 0
    /\ nodes = NoNodes /\ mark = NoMarks /\ lastIndex = 0
    /\ input = <<>> /\ mapping = EmptyMap /\ outs = <<>>
    /\ CtlIdle
    /\ deb = NoDeb /\ faulty = {} /\ dataPage = FALSE /\ flight = NoFlight

\* one operation on the store: storage afterwards, and what the caller saw
StoreStep(op, via, text, res) ==
    /\ storage' = res.storage
    /\ last' = [op |-> op, via |-> via, text |-> text, before |-> storage,
                outcome |-> res.outcome, error |-> res.error,
                wrote |-> res.wrote]
    /\ UNCHANGED <<domVars, textVars, calls, ctlVars, deb, faulty, dataPage, flight>>

SetAlias ==
    \E k \in StoreKeys, v \in StoreAliases :
        StoreStep("set", "StorageManager", EmptyText, setAlias(storage, k, v))

RemoveAlias ==
    \E k \in StoreKeys :
        StoreStep("remove", "StorageManager", EmptyText, removeAlias(storage, k))

ClearAllAliases ==
    StoreStep("clear", "StorageManager", EmptyText, clearAllAliases(storage))

ImportAliases ==
    \E t \in ImportTexts :
        StoreStep("import", "StorageManager", t, importAliases(storage, t))

\* chrome.runtime.onMessage: the switch over request.action
OnMessage ==
    \E request \in Requests :
        CASE request.action = "setAlias" ->
                StoreStep("set", "message", request.data,
                    handleSetAlias(storage, request.accountId, request.alias))
          [] request.action = "removeAlias" ->
                StoreStep("remove", "message", request.data,
                    handleRemoveAlias(storage, request.accountId))
          [] request.action = "clearAllAliases" ->
                StoreStep("clear", "message", request.data,
                    handleClearAllAliases(storage))
          [] OTHER ->
                StoreStep("import", "message", request.data,
                    handleImportAliases(storage, request.data))

\* the names handleAddAlias can read: its parameter, its constants, and
\* the bindings of the enclosing function of popup.js
AddAliasScope ==
    {"event", "inputAccountId", "aliasName", "normalizedAccountId", "confirmed",
     "elements", "currentAliases", "StorageManager", "updateUI", "showMessage",
     "showConfirmDialog", "validateAccountIdFormat", "normalizeAccountId"}

\* the type of the message handleAddAlias shows for the outcome res of its
\* store part: the validation messages (lines 117-127), nothing after a
\* declined confirmation (138-140); after setAlias the template of the
\* success message (156-159) reads accountId and aliasName, and a name that
\* does not resolve throws into the catch of lines 160-163
addAliasMessage(res) ==
    IF res.outcome = "rejected" THEN "error"
    ELSE IF res.outcome = "cancelled" THEN "none"
    ELSE IF {"accountId", "aliasName"} \subseteq AddAliasScope THEN "success"
    ELSE "error"

PopupAddAlias ==
    \E k \in {IdA, formatAccountId(IdB), <<" ">> \o IdB, BadKey},
       v \in {LabelP, <<>>, <<" ">>}, confirmed \in BOOLEAN :
        \E res \in {handleAddAlias(storage, k, v, confirmed)} :
            /\ storage' = res.storage
            /\ last' = [op |-> "add", via |-> "popup", text |-> EmptyText,
                        before |-> storage, outcome |-> res.outcome,
                        error |-> res.error, wrote |-> res.wrote,
                        shown |-> addAliasMessage(res)]
            /\ UNCHANGED <<domVars, textVars, calls, ctlVars, deb, faulty,
                           dataPage, flight>>

PopupEditAlias ==
    \E k \in DOMAIN storage, v \in {JNull, JString(LabelQ), JString(<<" ">>)} :
        StoreStep("set", "popup", EmptyText, handleEditAlias(storage, k, v))

PopupDeleteAlias ==
    \E k \in DOMAIN storage, confirmed \in BOOLEAN :
        StoreStep("remove", "popup", EmptyText,
                  handleDeleteAlias(storage, k, confirmed))

PopupClearAll ==
    \E confirmed \in BOOLEAN :
        StoreStep("clear", "popup", EmptyText, handleClearAll(storage, confirmed))

PopupFileImport ==
    \E t \in ImportTexts, confirmed \in BOOLEAN :
        StoreStep("import", "popup", t, handleFileImport(storage, t, confirmed))

NextStore ==
    \/ SetAlias \/ RemoveAlias \/ ClearAllAliases \/ ImportAliases
    \/ OnMessage
    \/ PopupAddAlias \/ PopupEditAlias \/ PopupDeleteAlias \/ PopupClearAll
    \/ PopupFileImport

SpecStore == InitStore /\ [][NextStore]_vars

\* ------------------------------------------------------------------------
\* Set and remove calls of two execution contexts on the same store: the
\* popup calls StorageManager, the background page runs its message
\* handlers; every call awaits chrome.storage.local.get, changes the object
\* it got and writes it back with chrome.storage.local.set
\* ------------------------------------------------------------------------
Contexts == {"popup", "background"}

\* every context works on an identifier of its own
KeyOf(c) == IF c = "popup" THEN IdA ELSE IdB
AliasOf(c) == IF c = "popup" THEN JString(LabelP) ELSE JString(LabelQ)

IdleCall == [pc |-> "idle", op |-> "none", snap |-> EmptyMap]

RaceStores ==
    {[k \in K |-> JString(<<"x">>)] : K \in SUBSET {IdA, IdB}}

InitRace ==
    /\ storage \in RaceStores
    /\ flight = [c \in Contexts |-> IdleCall]
    /\ last = [op |-> "race", want |-> [c \in Contexts |-> "none"]]
    /\ calls = 0
    /\ nodes = NoNodes /\ mark = NoMarks /\ lastIndex = 0
    /\ input = <<>> /\ mapping = EmptyMap /\ outs = <<>>
    /\ CtlIdle
    /\ deb = NoDeb /\ faulty = {} /\ dataPage = FALSE

\* the call of context c has awaited the get: it holds the mapping it read
CallRead(c, op) ==
    /\ flight[c].pc = "idle"
    /\ calls < MaxCalls
    /\ calls' = calls + 1
    /\ flight' = [flight EXCEPT ![c] = [pc |-> "read", op |-> op, snap |-> storage]]
    /\ UNCHANGED <<domVars, textVars, last, ctlVars, deb, faulty, storage, dataPage>>

\* the call of context c changes the mapping it read and writes it back
CallWrite(c) ==
    LET call == flight[c]
        res == IF c = "popup"
               THEN IF call.op = "set"
                    THEN setAlias(call.snap, KeyOf(c), AliasOf(c))
                    ELSE removeAlias(call.snap, KeyOf(c))
               ELSE IF call.op = "set"
                    THEN handleSetAlias(call.snap, KeyOf(c), AliasOf(c))
                    ELSE handleRemoveAlias(call.snap, KeyOf(c))
    IN  /\ call.pc = "read"
        /\ storage' = res.storage
        /\ flight' = [flight EXCEPT ![c] = IdleCall]
        /\ last' = [last EXCEPT !.want[c] = IF call.op = "set" THEN "set"
                                             ELSE "removed"]
        /\ UNCHANGED <<domVars, textVars, calls, ctlVars, deb, faulty, dataPage>>

NextRace ==
    \/ \E c \in Contexts, op \in {"set", "remove"} : CallRead(c, op)
    \/ \E c \in Contexts : CallWrite(c)

SpecRace == InitRace /\ [][NextRace]_vars

\* ========================================================================
\* Properties
\* ========================================================================

\* the occurrences of an identifier in t from position i on, left to right
RECURSIVE OccurrencesFrom(_, _)
OccurrencesFrom(t, i) ==
    LET p == NextMatch(t, i) IN
    IF p = 0 THEN <<>>
    ELSE <<[pos |-> p, len |-> MatchLen(t, p)]>>
         \o OccurrencesFrom(t, p + MatchLen(t, p))

OccurrenceText(t, o) == SubSeq(t, o.pos, o.pos + o.len - 1)

\* the occurrences of t whose normalized form is no key of m, each with the
\* character that follows it
Unregistered(t, m) ==
    LET occ == SelectSeq(OccurrencesFrom(t, 1),
                 LAMBDA o : normalizeAccountId(OccurrenceText(t, o)) \notin DOMAIN m)
    IN  [k \in 1..Len(occ) |->
           [id |-> OccurrenceText(t, occ[k]),
            next |-> IF occ[k].pos + occ[k].len <= Len(t)
                     THEN t[occ[k].pos + occ[k].len] ELSE "END"]]

NoRegisteredOccurrence(t, m) ==
    Len(Unregistered(t, m)) = Len(OccurrencesFrom(t, 1))

\* some occurrence of t is registered in m with a non-empty label
SomeRegistered(t, m) ==
    \E k \in 1..Len(OccurrencesFrom(t, 1)) :
        Lookup(m, normalizeAccountId(OccurrenceText(t, OccurrencesFrom(t, 1)[k]))) # <<>>

\* C2: rewriteText is idempotent: applying it to its own result with the same
\* mapping returns that result.
C2_Idempotent == Len(outs) = 2 => outs[2] = outs[1]

\* a text that the first application rewrote has gone through the second
C2_Witness == Len(outs) = 2 /\ outs[1] # input

\* C6: rewriteText leaves every occurrence that is not registered in the
\* mapping as it is, followed by what followed it, and returns the input
\* itself when no occurrence is registered (so for every text under the
\* empty mapping).
C6_UnregisteredUnchanged ==
    Len(outs) >= 1 =>
        /\ Unregistered(outs[1], mapping) = Unregistered(input, mapping)
        /\ NoRegisteredOccurrence(input, mapping) => outs[1] = input

\* a text holding an unregistered occurrence next to a registered one that
\* was labelled
C6_Witness ==
    /\ Len(outs) >= 1
    /\ Unregistered(input, mapping) # <<>>
    /\ outs[1] # input

\* C1: annotate on a node that is not excluded, not marked, holds no Labeled
\* Span and whose only Text node, its own child, holds a registered identifier
\* leaves the node's text content equal to rewriteText(original text, m), with a Labeled
\* Span inserted and the mark set.
C1_AnnotateRewrites ==
    (/\ last.op = "annotate"
     /\ ~last.excl /\ ~last.marked /\ ~last.hadSpan /\ last.single
     /\ SomeRegistered(last.before, last.m))
    => /\ TextContent(nodes, last.e) = applyAliasesToText(last.before, last.m)
       /\ TextContent(nodes, last.e) # last.before
       /\ HasSpan(nodes, last.e)
       /\ mark[last.e]

\* C3: clear(node) right after annotate(node, m), on a node that held no
\* Labeled Span before, restores the text content the node had before annotate.
C3_ClearReversesAnnotate ==
    (/\ last.op = "clear"
     /\ last.prev.op = "annotate"
     /\ last.prev.e = last.e
     /\ ~last.prev.hadSpan)
    => TextContent(nodes, last.e) = last.prev.before

\* the classification of C4: the node or an ancestor is a code container,
\* or the node's text content holds an ARN literal prefix
C4_Classified(ns, e) ==
    \/ \E a \in Elems : Under(e, a) /\ a = "code"
    \/ Includes(TextContent(ns, e), ArnPrefix)
    \/ Includes(TextContent(ns, e), ArnCnPrefix)

\* C4: annotate on a node classified excluded changes no text, inserts no
\* Labeled Span and sets no mark, whatever the mapping.
C4_ExcludedUntouched ==
    [][(last'.op = "annotate" /\ C4_Classified(nodes, last'.e))
        => (nodes' = nodes /\ mark' = mark)]_vars

\* annotate was called with a mapping that registers an identifier of the
\* text of an unmarked node that an ARN literal in its text excludes
C4_Witness ==
    /\ last.op = "annotate"
    /\ last.excl /\ ~last.marked
    /\ Includes(last.before, ArnPrefix)
    /\ SomeRegistered(last.before, last.m)

\* C8: while a node's mark is set, an annotate call on it changes no text, no
\* Labeled Span and no mark.
C8_MarkedUntouched ==
    [][(last'.op = "annotate" /\ mark[last'.e])
        => (nodes' = nodes /\ mark' = mark)]_vars

\* annotate was called on a marked node that is not excluded, holds no
\* Labeled Span and holds an identifier the mapping registers
C8_Witness ==
    /\ last.op = "annotate"
    /\ last.marked /\ ~last.excl /\ ~last.hadSpan
    /\ SomeRegistered(last.before, last.m)

\* some Text node of element x holds an ARN literal prefix
HoldsArnText(ns, x) ==
    \E i \in 1..Len(ns[x]) :
        /\ ~ns[x][i].span
        /\ \/ Includes(ns[x][i].text, ArnPrefix)
           \/ Includes(ns[x][i].text, ArnCnPrefix)

\* C5: no annotation pass (the debounced pass with its update of the document
\* title, the annotation of an opened menu) modifies the text of an element
\* whose text holds an ARN literal, even when the identifier inside the ARN
\* is registered in the mapping.
C5_ArnTextUntouched ==
    [][act' \in {"pass", "click"}
        => \A x \in Elems : HoldsArnText(nodes, x) => nodes'[x] = nodes[x]]_vars

\* two Labeled Spans among the children of x with nothing but blank text
\* between them
DoubleSpan(ns, x) ==
    \E i, j \in 1..Len(ns[x]) :
        /\ i < j
        /\ ns[x][i].span /\ ns[x][j].span
        /\ \A k \in (i + 1)..(j - 1) : ~ns[x][k].span /\ IsBlank(ns[x][k].text)

\* C7: in every reachable state of the controller (passes, clears, navigation
\* strips, mapping changes, host mutations) no identifier occurrence is
\* followed by more than one Labeled Span.
C7_NoDoubleSpan == \A x \in Elems : ~DoubleSpan(nodes, x)

\* a pass has run again after a mapping change cleared the document, and a
\* Labeled Span is displayed
C7_Witness ==
    /\ act = "pass"
    /\ track.chg = "done"
    /\ \E x \in Elems : \E i \in 1..Len(nodes[x]) : nodes[x][i].span

\* the labels the mapping pools of the controller use
PoolLabels == UNION {MapValues(m) : m \in StoredMaps}

\* the text the document displays, the title element included
DisplayedText(ns) == TextContent(ns, "html")

\* C9: once a mapping change has been handled (the document cleared, the pass
\* re-run), the document, its title included, displays no label that the new
\* mapping does not hold.
C9_NoStaleLabel ==
    track.chg = "done" =>
        \A l \in PoolLabels :
            Includes(DisplayedText(nodes), Parens(l)) => l \in MapValues(aliasMap)

\* C10: after a transition to a non-eligible location stripped the page and
\* the pass that follows it has run, no Labeled Span is left outside the
\* navigation scope and every navigation-scope element that displayed one
\* before the transition still displays one.
C10_ScopeChange ==
    track.nav = "passed" =>
        /\ ~SpansOutsideNavigation(nodes)
        /\ \A n \in track.had : HasSpan(nodes, n)

\* C11: with a non-empty mapping, triggers that each arrive less than the
\* debounce window after the previous one produce exactly one pass, and the
\* pass runs one window after the last of them: no pass is queued per trigger.
C11_DebounceCoalesces ==
    DOMAIN aliasMap # {} =>
        /\ deb.passes <= deb.bursts
        /\ deb.passes > 0 => deb.passAt = deb.passAfter + WindowTicks
        /\ (deb.lastAt >= 0 /\ deb.now > deb.lastAt + WindowTicks)
              => deb.passes = deb.bursts

\* three triggers, each less than a window after the previous one, have been
\* followed by their pass
C11_Witness ==
    /\ DOMAIN aliasMap # {}
    /\ deb.triggers = 3 /\ deb.bursts = 1 /\ deb.passes = 1
    /\ deb.passAfter > 0

\* C12: no step of the engine (navigation-scope pass, page-content pass,
\* element hook, clear, navigation strip) changes the text inside a node that
\* is classified excluded, by a structural match on itself or an ancestor or
\* by an ARN literal in its text content.
C12_ExcludedRegionsIntact ==
    [][act' # "host"
        => \A x \in Elems :
              isExcludedElement(nodes, x)
                  => TextContent(nodes', x) = TextContent(nodes, x)]_vars

\* a canonical identifier: exactly 12 digits
Canonical(t) == Len(t) = IdLen /\ \A i \in 1..Len(t) : IsDigit(t[i])

\* C13: normalize(format(id)) = id for every canonical 12-digit identifier,
\* and format(s) = s for every string that is not exactly 12 digits.
C13_CodecRoundTrip ==
    /\ (Len(outs) = 2 /\ Canonical(input)) => outs[2] = input
    /\ (Len(outs) >= 1 /\ ~Canonical(input)) => outs[1] = input

\* a canonical identifier was formatted into another string and normalized
C13_Witness == Len(outs) = 2 /\ Canonical(input) /\ outs[1] # input

\* C14: a pass (navigation scope or page-content scope) in which the
\* processing of a node fails still processes every other node it selects:
\* the loop body is entered for every selected node whose processing does not
\* throw, is not marked and holds a registered identifier.
C14_FailureIsolated ==
    last.op \in {"navigation", "page"} =>
        \A x \in last.selected \ faulty :
            (/\ x \notin last.marked
             /\ hasRegisteredAccountId(TextContent(nodes, x), aliasMap))
            => x \in last.seen

\* C15: once initialize() has failed (at the mapping fetch or at the
\* subscription setup), no later timer, click hook or mutation callback
\* rewrites a text or creates a Labeled Span.
C15_FailedInitAnnotatesNothing ==
    [][(phase \in {"failed", "observing"} /\ act' # "host")
        => nodes' = nodes]_vars

\* the mapping an import text stands for: the aliases member of the export
\* shape, or the object itself when it is a bare mapping
IsMappingText(text) == text.kind = "json" /\ text.value.type = "object"
ImportedMapping(text) ==
    LET v == text.value IN
    IF KeyAliases \in DOMAIN v.fields /\ v.fields[KeyAliases].type = "object"
    THEN v.fields[KeyAliases].fields
    ELSE v.fields
MalformedEntry(m) ==
    \E k \in DOMAIN m :
        ~Canonical(k) \/ m[k].type # "string" \/ m[k].text = <<>>
WellFormed(m) ==
    \A k \in DOMAIN m :
        Canonical(k) /\ m[k].type = "string" /\ Trim(m[k].text) # <<>>

\* C16: through every import entry point, an import of the export shape or of
\* a bare mapping fails when a key is not a canonical 12-digit identifier or a
\* value is not a non-empty string, is accepted when every entry is well
\* formed, and on success the persisted mapping is exactly the imported one.
C16_ImportValidatesAndReplaces ==
    (last.op = "import" /\ last.outcome # "cancelled" /\ IsMappingText(last.text))
    => LET m == ImportedMapping(last.text) IN
       /\ MalformedEntry(m) => last.outcome = "error"
       /\ WellFormed(m) => last.outcome = "ok"
       /\ last.outcome = "ok" => storage = m

\* C17: a failed import (unparsable text, malformed key, malformed value) is
\* never partially applied: the persisted mapping is what it was before the
\* call, chrome.storage was not written (so no change notification), and the
\* caller got an error with a message.
C17_FailedImportLeavesStore ==
    (last.op = "import" /\ last.outcome = "error")
    => /\ storage = last.before
       /\ ~last.wrote
       /\ last.error # ""

\* an import over a non-empty store failed on a malformed key although the
\* text also held a well-formed entry the store did not have
C17_Witness ==
    /\ last.op = "import" /\ last.outcome = "error"
    /\ last.before # EmptyMap
    /\ IsMappingText(last.text)
    /\ \E k \in DOMAIN ImportedMapping(last.text) : ~Canonical(k)
    /\ \E k \in DOMAIN ImportedMapping(last.text) :
          Canonical(k) /\ k \notin DOMAIN last.before

\* C18: after any sequence of set, remove, clear and import operations through
\* any entry point, every key of the mapping getAllAliases() returns is a
\* canonical 12-digit identifier and every value is a non-empty string.
C18_StoreBoundary ==
    \A k \in DOMAIN storage :
        Canonical(k) /\ storage[k].type = "string" /\ storage[k].text # <<>>

\* C19: identifier detection is restartable: in every reachable state the
\* answer ACCOUNT_ID_PATTERN.test gives for the text of an element is the
\* answer of a fresh scan from the start of that text, whatever was tested
\* before.
C19_DetectionRestartable ==
    \A e \in Elems :
        PatternTest(TextContent(nodes, e), lastIndex).ok
            = PatternTest(TextContent(nodes, e), 0).ok

\* the text in which every occurrence of occs (occurrences of t, left to
\* right) whose normalized form is a key of m is followed by " (label)", the
\* rest of t from position from on being kept as it is
RECURSIVE LabelledFrom(_, _, _, _)
LabelledFrom(t, m, occs, from) ==
    IF occs = <<>> THEN SubSeq(t, from, Len(t))
    ELSE LET o == Head(occs)
             key == normalizeAccountId(OccurrenceText(t, o))
         IN  SubSeq(t, from, o.pos + o.len - 1)
             \o (IF key \in DOMAIN m
                 THEN <<" ", "(">> \o m[key] \o <<")">>
                 ELSE <<>>)
             \o LabelledFrom(t, m, Tail(occs), o.pos + o.len)

\* t holds "(" + label + ")" for some label value of m
HoldsLabel(t, m) == \E k \in DOMAIN m : Includes(t, <<"(">> \o m[k] \o <<")">>)

\* the text the k-th application of a rewriting run was given
RewriteInput(k) == IF k = 1 THEN input ELSE outs[k - 1]

\* C20: rewriteText returns a text that holds "(label)" for a label value of
\* the mapping as it is, and rewrites every other text by appending
\* " (label)" right after every occurrence whose normalized form is a key of
\* the mapping, the occurrence keeping its contiguous or hyphenated form and
\* every other character its place.
C20_RewriteText ==
    \A k \in 1..Len(outs) :
        outs[k] = IF HoldsLabel(RewriteInput(k), mapping)
                  THEN RewriteInput(k)
                  ELSE LabelledFrom(RewriteInput(k), mapping,
                                    OccurrencesFrom(RewriteInput(k), 1), 1)

\* a Labeled Span, or a mark, is left somewhere in the document
SomeSpan(ns) == \E x \in Elems : \E i \in 1..Len(ns[x]) : ns[x][i].span
SomeMark(mk) == \E x \in Elems : mk[x]

\* the labels of the Labeled Spans of ns that are not Labeled Spans of old
SpanTexts(ns) ==
    UNION {{ns[x][i].text : i \in {j \in 1..Len(ns[x]) : ns[x][j].span}} :
           x \in Elems}
NewSpanTexts(old, ns) == SpanTexts(ns) \ SpanTexts(old)

\* C21: when a change notification delivers a new mapping the whole document
\* is cleared (no Labeled Span and no mark is left) before the re-run pass
\* starts, and every pass that fires afterwards, one scheduled before the
\* notification included, writes labels of the delivered mapping only.
C21_ChangeClearsAndRefreshes ==
    [][/\ (act' = "storage" /\ phase = "ready")
             => (~SomeSpan(nodes') /\ ~SomeMark(mark'))
       /\ (act' = "pass" /\ phase = "ready")
             => \A t \in NewSpanTexts(nodes, nodes') :
                   t \in {Parens(l) : l \in MapValues(stored)}]_vars

\* the text a host mutation of element x affected: the data of the Text node
\* it appended, or of the Text node it set or put in place of the old content
AffectedText(old, ns, x) ==
    IF Len(ns[x]) > Len(old[x]) THEN ns[x][Len(ns[x])].text ELSE ns[x][1].text

\* C22: under a non-empty mapping, a reported addition or text mutation whose
\* affected text holds an identifier occurrence schedules a pass; a reported
\* mutation whose affected text holds none schedules nothing.
C22_MutationSchedules ==
    [][(act' = "host" /\ phase = "ready")
        => \A x \in Elems :
            (Observed(x) /\ nodes'[x] # nodes[x])
            => /\ (NextMatch(AffectedText(nodes, nodes', x), 1) # 0
                   /\ DOMAIN aliasMap # {}) => debounce'
               /\ (NextMatch(AffectedText(nodes, nodes', x), 1) = 0
                   /\ ~debounce) => ~debounce']_vars

\* C23: the strip of a navigation transition to a non-eligible location
\* removes no Labeled Span and unsets no mark on or inside an element that
\* the navigation-scope pass selects.
C23_StripKeepsNavigation ==
    [][(act' = "transition" /\ ~shouldApplyAliases(loc))
        => \A n \in NavigationScope : \A x \in Elems :
              Under(x, n)
              => /\ HasSpan(nodes, x) => HasSpan(nodes', x)
                 /\ mark[x] => mark'[x]]_vars

\* the number of Labeled Spans among the children of element x
SpanCount(ns, x) == Cardinality({i \in 1..Len(ns[x]) : ns[x][i].span})

\* C24: while the location is not page-content-eligible, no step of the
\* engine (debounced pass, click hook, timers, change listener, transition)
\* creates a Labeled Span outside the navigation scope or modifies the title.
C24_NoPageContentOffHome ==
    [][(act' # "host" /\ ~shouldApplyAliases(loc) /\ loc' = loc)
        => /\ \A x \in Elems :
                (\A n \in NavigationScope : ~Under(x, n))
                => SpanCount(nodes', x) <= SpanCount(nodes, x)
           /\ TextContent(nodes', "title") = TextContent(nodes, "title")]_vars

\* C25: a pass run on a document on which a pass with the same mapping has
\* just completed, the host having changed nothing since, modifies no text
\* node, no Labeled Span, no mark and not the title.
C25_PassFixedPoint ==
    act = "pass" =>
        \A st \in {debouncedPass(State, aliasMap, loc)} :
            st.nodes = nodes /\ st.mark = mark

\* the tasks the engine has scheduled and that have not fired yet: the
\* debounced pass and the timers of handlePageTransition
PendingTasks == (IF debounce THEN 1 ELSE 0) + transitions

\* C26: at every moment at most one scheduled engine task is pending:
\* scheduling a task, the handling of a navigation transition included,
\* cancels and replaces the task that was pending.
C26_SingleSlot == PendingTasks <= 1

\* the locations of LocationPool where the page-content pass is due: the home
\* path, the console redirect path, the selector path, the sign-in hosts
EligibleLocations == {"home", "redirect", "selector", "signin", "regional"}

OutsideNavigation(x) == \A n \in NavigationScope : ~Under(x, n)

SelectorLocations == {"selector", "signin", "regional"}

\* C28: once the content script has initialized, the page carries the
\* "selector" tag if and only if the current location is a selector view
C28_PageKindFollowsLocation ==
    phase = "ready" => (dataPage <=> loc \in SelectorLocations)

\* the characters of the own nodes of x that are outside every Labeled Span
OutsideLen(ns, x) ==
    LET idx == {i \in 1..Len(ns[x]) : ~ns[x][i].span}
        RECURSIVE Sum(_)
        Sum(S) == IF S = {} THEN 0
                  ELSE LET i == CHOOSE j \in S : TRUE
                       IN  Len(ns[x][i].text) + Sum(S \ {i})
    IN  Sum(idx)

\* C29: a run of the Annotator puts into every Labeled Span it creates
\* exactly "(" + label + ")" for a label of the mapping it was given, and
\* outside the spans it adds one space per span and nothing else
C29_SpanHoldsWholeLabel ==
    [][(last'.op = "annotate" /\ calls' # calls)
        => /\ \A t \in NewSpanTexts(nodes, nodes') :
                  t \in {Parens(l) : l \in MapValues(last'.m)}
           /\ \A x \in Elems :
                  OutsideLen(nodes', x) - OutsideLen(nodes, x)
                      = SpanCount(nodes', x) - SpanCount(nodes, x)]_vars

\* the texts the export entry points produce for the mapping m
ExportsOf(m) == {exportAliases(m), handleExportAliases(m)}

HasExportShape(text) ==
    /\ IsMappingText(text)
    /\ DOMAIN text.value.fields = {KeyVersion, KeyExportedAt, KeyAliases}

\* C30: an export of the persisted mapping has the shape {version,
\* exportedAt, aliases}, and importing it through any import entry point
\* succeeds and leaves the persisted mapping as it was exported
C30_ExportImportRoundTrip ==
    (/\ last.op = "import"
     /\ last.outcome # "cancelled"
     /\ last.text \in ExportsOf(last.before))
    => /\ HasExportShape(last.text)
       /\ last.outcome = "ok"
       /\ storage = last.before

\* a step of the engine (not of the host) under an empty cached mapping
EmptyMappingStep == aliasMap = EmptyMap /\ aliasMap' = EmptyMap /\ act' # "host"

\* C31: while the cached mapping is empty no trigger schedules a pass, and
\* no step of the engine, a pass that was still pending included, sets a
\* mark, adds a Labeled Span or adds text
C31_EmptyMappingIdle ==
    [][/\ (aliasMap' = EmptyMap /\ ~debounce) => ~debounce'
       /\ EmptyMappingStep
            => \A x \in Elems :
                  /\ mark'[x] => mark[x]
                  /\ SpanCount(nodes', x) <= SpanCount(nodes, x)
                  /\ Len(TextContent(nodes', x)) <= Len(TextContent(nodes, x))]_vars

\* the Text node i of x holds an occurrence registered in m that is not
\* followed by a Labeled Span
Unlabelled(ns, m, x, i) ==
    LET t == ns[x][i].text
        occ == OccurrencesFrom(t, 1)
    IN  /\ ~ns[x][i].span
        /\ \E k \in 1..Len(occ) :
              /\ Lookup(m, normalizeAccountId(OccurrenceText(t, occ[k]))) # <<>>
              /\ ~(/\ occ[k].pos + occ[k].len = Len(t)
                    /\ t[Len(t)] = " "
                    /\ i < Len(ns[x])
                    /\ ns[x][i + 1].span)

\* x is an element of the body in a scope that is enabled at location l
EnabledScope(x, l) ==
    /\ Under(x, "body")
    /\ shouldApplyAliases(l) \/ ~OutsideNavigation(x)

Complete ==
    \A x \in Elems :
        (EnabledScope(x, loc) /\ ~isExcludedElement(nodes, x))
            => \A i \in 1..Len(nodes[x]) : ~Unlabelled(nodes, aliasMap, x, i)

\* C32: under a non-empty mapping, from some moment on every registered
\* occurrence in a non-excluded node of an enabled scope carries a Labeled
\* Span (the host stops mutating after finitely many events)
C32_EventuallyComplete == <>[](DOMAIN aliasMap # {} => Complete)

\* an own Text node of x holds an occurrence registered in m
HoldsRegistered(ns, m, x) ==
    \E i \in 1..Len(ns[x]) : ~ns[x][i].span /\ SomeRegistered(ns[x][i].text, m)

\* C33: the clear of a mapping change leaves no mark in the document, and
\* the pass re-run after the change makes every element of an enabled
\* scope that displayed the old label and still holds the identifier
\* display the label of the new mapping and not the old one
C33_ChangeRelabels ==
    [][/\ (act' = "storage" /\ phase = "ready") => ~SomeMark(mark')
       /\ (act' = "pass" /\ track.chg = "cleared")
            => \A x \in track.shown :
                  (/\ shouldApplyAliases(loc) \/ ~OutsideNavigation(x)
                   /\ HoldsRegistered(nodes', aliasMap, x)
                   /\ ~isExcludedElement(nodes', x))
                  => /\ \E l \in MapValues(aliasMap) : ShowsLabel(nodes', x, l)
                     /\ \A l \in PoolLabels \ MapValues(aliasMap) :
                            ~ShowsLabel(nodes', x, l)]_vars

\* C34: once initialization has succeeded the cached mapping of the
\* controller is the persisted mapping, whenever the writes to the store
\* happened
C34_CacheFollowsStore == phase = "ready" => aliasMap = stored

\* C35: once every set and remove call has completed, the store reflects the
\* last call of every context: the pair it set is present, the identifier
\* it removed is absent
C35_NoLostUpdate ==
    (\A c \in Contexts : flight[c].pc = "idle")
    => \A c \in Contexts :
          /\ last.want[c] = "set"
                => /\ KeyOf(c) \in DOMAIN storage
                   /\ storage[KeyOf(c)] = AliasOf(c)
          /\ last.want[c] = "removed" => KeyOf(c) \notin DOMAIN storage

\* C36: the add operation of the settings UI shows the success message
\* whenever setAlias completed and the mapping was persisted, and shows the
\* failure message only when the mapping was not changed
C36_AddReportsOutcome ==
    last.op = "add"
    => /\ last.wrote => last.shown = "success"
       /\ last.shown = "error" => storage = last.before

====
